---- MODULE Spec2Model ----
(***************************************************************************)
(* gofb2: the stack-based Parser (ParseToken / Parse) and the node types   *)
(* it drives (tagCallback / attrCallback / charDataCallback of the FB2     *)
(* element types), modelled as a state machine over a heap of nodes.       *)
(*                                                                         *)
(* A node is a record holding the fields of its Go struct; a pointer to a  *)
(* node is its index in the heap `nodes`; the nil pointer is NIL.          *)
(***************************************************************************)
EXTENDS Integers, Sequences, FiniteSets, TLC

VARIABLES
    nodes,      \* the heap: every node allocated so far, nodes[1] is the root
    stack,      \* Parser.stack: pointers to the ancestors, outer to inner
    last,       \* Parser.last: pointer to the current node, NIL when none
    panicked,   \* the goroutine died of a nil dereference inside ParseToken
    pc,         \* "manual": the caller feeds ParseToken itself;
                \* "call", "loop", "done": position inside Parser.Parse
    parseErr,   \* Parse's local parseErr
    ret,        \* what Parse returned ("none" until it returns)
    log,        \* history: one record per token handed to ParseToken
    docStack,   \* history: the elements open in the document, outer to inner
    wellNested, \* history: every close tag so far closed the innermost element
    input,      \* the input alphabet the token source draws from (fixed by Init)
    reads,      \* history: the Contenter calls made since the last token, with results
    peer        \* a second Parser of the same process: its first, stack and last, and
                \* as history the tokens it was handed and the nodes it allocated

vars ==
    <<nodes, stack, last, panicked, pc, parseErr, ret, log, docStack, wellNested, input,
      reads, peer>>

-----------------------------------------------------------------------------
(* Bounds of the model. *)

MaxTokens == 6      \* tokens handed to ParseToken in one run (Section, P roots)
MaxAttrTokens == 3  \* the same, when the root is a TD and tags carry attributes
MaxBookTokens == 5  \* the same, when the root is a FictionBook
MaxDescTokens == 7  \* the same, for a FictionBook reduced to its description
MaxTableTokens == 13  \* the same, when the root is a Table and text runs occur
MaxGridTokens == 17   \* the same, for a Table without text: 2 rows of 3 cells take 17
MaxReadTokens == 6   \* the same, when the tree is read between the tokens (Table, Poem roots)
MaxReads == 3        \* Contenter calls in a row, between two tokens
MaxSlotTokens == 6   \* the same, when the root is a Section and the tags fill its slots
MaxLinkTokens == 2   \* the same, when the root is a Link and its tag carries attributes
MaxPairTokens == 4   \* tokens handed to each of two Parsers that run side by side
MaxInfoTokens == 4  \* the same, when the root is a DocumentInfo
MaxStanzaTokens == 8  \* the same, when the root is a Stanza
MaxImageTokens == 4   \* the same, when the root is a Section and image tags carry attributes
MaxSinkTokens == 6  \* the same, when the tags are the scalar children of a DocumentInfo

-----------------------------------------------------------------------------
(* Values. *)

NIL == 0                 \* the nil pointer
first == 1               \* Parser.first: the root the caller gave NewParser
nilErr == "nil"          \* the nil error
NoPeer ==                \* no second Parser
    [first |-> NIL, stack |-> <<>>, last |-> NIL, toks |-> <<>>, own |-> <<>>]

NoName == [Space |-> "", Local |-> ""]       \* xml.Name{}
Name(local) == [Space |-> "", Local |-> local]
QName(space, local) == [Space |-> space, Local |-> local]
Attr(name, value) == [Name |-> name, Value |-> value]

StartElement(name, attr) == [type |-> "StartElement", Name |-> name, Attr |-> attr, Data |-> ""]
EndElement(name) == [type |-> "EndElement", Name |-> name, Attr |-> <<>>, Data |-> ""]
CharDataToken(data) == [type |-> "CharData", Name |-> NoName, Attr |-> <<>>, Data |-> data]

(* An entry of a Content list ([]Contenter): a pointer to an element node, or  *)
(* a CharData value.  pos is a history field: the index in the token stream of *)
(* the text run the CharData was copied from.                                  *)
Ptr(id) == [ref |-> id, data |-> "", pos |-> 0]
Chars(data, pos) == [ref |-> NIL, data |-> data, pos |-> pos]

-----------------------------------------------------------------------------
(* The struct types: New(kind) is the zero value &T{}.  pos is a history   *)
(* field: the index of the open tag the node was selected for.             *)

baseNode == [XMLName |-> NoName, pos |-> 0]
contentBase == baseNode @@ [Content |-> <<>>]

New(kind) ==
    [kind |-> kind] @@
    CASE kind = "Title" -> contentBase @@ [Lang |-> ""]
      [] kind = "Image" ->
            baseNode @@ [XlinkType |-> "", XlinkHref |-> "", Alt |-> "", Title |-> "", ID |-> ""]
      [] kind = "P" -> contentBase @@ [Lang |-> "", ID |-> "", Style |-> ""]
      [] kind = "Cite" -> contentBase @@ [ID |-> "", Lang |-> "", TextAuthor |-> <<>>]
      [] kind = "Poem" -> contentBase @@ [Title |-> NIL, Epigraphs |-> <<>>]
      [] kind = "Stanza" ->
            baseNode @@ [Lang |-> "", Title |-> NIL, Subtitle |-> NIL, V |-> <<>>]
      [] kind = "Epigraph" -> contentBase @@ [ID |-> "", TextAuthor |-> <<>>]
      [] kind = "Annotation" -> contentBase @@ [ID |-> "", Lang |-> ""]
      [] kind = "Section" ->
            contentBase @@ [Title |-> NIL, Epigraphs |-> <<>>, Image |-> NIL,
                            Annotation |-> NIL, Sections |-> <<>>, ID |-> "", Lang |-> ""]
      [] kind = "StyleType" -> contentBase @@ [Lang |-> ""]
      [] kind = "NamedStyleType" -> contentBase @@ [Lang |-> "", Name |-> ""]
      [] kind = "Link" -> contentBase @@ [XlinkType |-> "", XlinkHref |-> "", Type |-> ""]
      [] kind = "StyleLinkType" -> contentBase
      [] kind = "Table" -> baseNode @@ [TR |-> <<>>, ID |-> "", Style |-> ""]
      [] kind = "TR" -> contentBase @@ [Align |-> ""]
      [] kind = "TD" ->
            contentBase @@ [Lang |-> "", ID |-> "", Style |-> "", Colspan |-> 0,
                            Rowspan |-> 0, Align |-> "", Valign |-> ""]
      [] kind = "InlineImage" -> baseNode @@ [XlinkType |-> "", XlinkHref |-> "", Alt |-> ""]
      [] kind = "EmptyLine" -> baseNode
      [] kind = "stringNode" -> baseNode @@ [s |-> NIL, field |-> ""]
      [] kind = "Body" ->
            baseNode @@ [Image |-> NIL, Title |-> NIL, Epigraphs |-> <<>>,
                         Sections |-> <<>>, Lang |-> ""]
      [] kind = "NotesBody" ->
            baseNode @@ [Image |-> NIL, Title |-> NIL, Epigraphs |-> <<>>,
                         Sections |-> <<>>, Lang |-> "", Name |-> ""]
      [] kind = "FictionBook" ->
            baseNode @@ [Stylesheet |-> <<>>, Description |-> NIL, Body |-> NIL,
                         NotesBody |-> NIL, Binary |-> <<>>]
      [] kind = "Stylesheet" -> baseNode @@ [Type |-> "", Value |-> "", shared |-> FALSE]
      [] kind = "Description" ->
            baseNode @@ [TitleInfo |-> NIL, SrcTitleInfo |-> NIL, DocumentInfo |-> NIL,
                         PublishInfo |-> NIL, CustomInfo |-> <<>>, Output |-> <<>>]
      [] kind = "TitleInfo" ->
            baseNode @@ [Genres |-> <<>>, Authors |-> <<>>, BookTitle |-> NIL,
                         Annotation |-> NIL, Keywords |-> NIL, Date |-> NIL,
                         Coverpage |-> NIL, Lang |-> "", SrcLang |-> "",
                         Translators |-> <<>>, Sequences |-> <<>>]
      [] kind = "Binary" -> baseNode @@ [ID |-> "", ContentType |-> "", Value |-> <<>>]
      [] kind = "DocumentInfo" ->
            baseNode @@ [Authors |-> <<>>, ProgramUsed |-> NIL, Date |-> NIL, SrcURLs |-> <<>>,
                         SrcOcr |-> NIL, ID |-> "", Version |-> 0, History |-> NIL,
                         Publishers |-> <<>>]
      [] kind = "Author" ->
            baseNode @@ [FirstName |-> NIL, MiddleName |-> NIL, LastName |-> NIL,
                         Nickname |-> NIL, HomePages |-> <<>>, Emails |-> <<>>, ID |-> ""]
      [] kind = "Date" -> baseNode @@ [Value |-> NIL, Lang |-> "", StrValue |-> ""]
      [] kind \in {"floatNode", "stringArrayNode"} -> baseNode @@ [s |-> NIL, field |-> ""]
      [] OTHER -> baseNode

(* The types whose method set comes from mixed (charDataCallback appends). *)
MixedKinds == {"P", "StyleType", "NamedStyleType", "TD", "Link", "StyleLinkType"}
(* The types that embed contentBase: GetContent returns Content. *)
ContentKinds ==
    MixedKinds \cup {"Title", "Cite", "Poem", "Epigraph", "Annotation", "Section", "TR"}

-----------------------------------------------------------------------------
(* Results of the callbacks.  A callback works on the heap h and the node  *)
(* n it is called on; it returns the heap it leaves, the error it returns  *)
(* and, for tagCallback, the pointer it returns.                           *)

Result(h, node, err) == [heap |-> h, node |-> node, err |-> err]

(* A variant of appendContent that puts the new entry in front of the list. *)
appendContent_front(h, n, cont) == [h EXCEPT ![n].Content = <<cont>> \o @]

(* appendContent: c.Content = append(c.Content, cont) *)
appendContent(h, n, cont) == [h EXCEPT ![n].Content = Append(@, cont)]

(* x := &T{}; n.appendContent(x); return x, nil *)
NewInContent(h, n, kind) ==
    LET id == Len(h) + 1
    IN  Result(appendContent(Append(h, New(kind)), n, Ptr(id)), id, nilErr)

(* A variant of NewInSlot that appends the new node to the content list. *)
NewInSlot_listed(h, n, kind, F) == NewInContent(h, n, kind)

(* n.F = &T{}; return n.F, nil *)
NewInSlot(h, n, kind, F) ==
    LET id == Len(h) + 1
    IN  Result([Append(h, New(kind)) EXCEPT ![n][F] = id], id, nilErr)

(* x := &T{}; n.F = append(n.F, x); return x, nil *)
NewInList(h, n, kind, F) ==
    LET id == Len(h) + 1
    IN  Result([Append(h, New(kind)) EXCEPT ![n][F] = Append(@, id)], id, nilErr)

-----------------------------------------------------------------------------
(* tagCallback, by receiver type. *)

baseNode_tagCallback(h, n, start) == Result(h, NIL, "unexpected tag")

Title_tagCallback(h, n, start) ==
    CASE start.Name.Local = "p" -> NewInContent(h, n, "P")
      [] start.Name.Local = "empty-line" -> NewInContent(h, n, "EmptyLine")
      [] OTHER -> baseNode_tagCallback(h, n, start)

Cite_tagCallback(h, n, start) ==
    CASE start.Name.Local = "text-author" -> NewInList(h, n, "P", "TextAuthor")
      [] start.Name.Local = "p" -> NewInContent(h, n, "P")
      [] start.Name.Local = "poem" -> NewInContent(h, n, "Poem")
      [] start.Name.Local = "subtitle" -> NewInContent(h, n, "P")
      [] start.Name.Local = "table" -> NewInContent(h, n, "Table")
      [] start.Name.Local = "empty-line" -> NewInContent(h, n, "EmptyLine")
      [] OTHER -> baseNode_tagCallback(h, n, start)

Poem_tagCallback(h, n, start) ==
    CASE start.Name.Local = "title" -> NewInSlot(h, n, "Title", "Title")
      [] start.Name.Local = "epigraph" -> NewInList(h, n, "Epigraph", "Epigraphs")
      [] start.Name.Local = "subtitle" -> NewInContent(h, n, "P")
      [] start.Name.Local = "stanza" -> NewInContent(h, n, "Stanza")
      [] OTHER -> baseNode_tagCallback(h, n, start)

(* A variant of Stanza.tagCallback that files the subtitle among the lines. *)
Stanza_tagCallback_subtitleLine(h, n, start) ==
    CASE start.Name.Local = "title" -> NewInSlot(h, n, "Title", "Title")
      [] start.Name.Local = "subtitle" -> NewInList(h, n, "P", "V")
      [] start.Name.Local = "v" -> NewInList(h, n, "P", "V")
      [] OTHER -> baseNode_tagCallback(h, n, start)

Stanza_tagCallback(h, n, start) ==
    CASE start.Name.Local = "title" -> NewInSlot(h, n, "Title", "Title")
      [] start.Name.Local = "subtitle" -> NewInSlot(h, n, "P", "Subtitle")
      [] start.Name.Local = "v" -> NewInList(h, n, "P", "V")
      [] OTHER -> baseNode_tagCallback(h, n, start)

Epigraph_tagCallback(h, n, start) ==
    CASE start.Name.Local = "text-author" -> NewInList(h, n, "P", "TextAuthor")
      [] start.Name.Local = "p" -> NewInContent(h, n, "P")
      [] start.Name.Local = "poem" -> NewInContent(h, n, "Poem")
      [] start.Name.Local = "cite" -> NewInContent(h, n, "Cite")
      [] start.Name.Local = "empty-line" -> NewInContent(h, n, "EmptyLine")
      [] OTHER -> baseNode_tagCallback(h, n, start)

Annotation_tagCallback(h, n, start) ==
    CASE start.Name.Local = "p" -> NewInContent(h, n, "P")
      [] start.Name.Local = "poem" -> NewInContent(h, n, "Poem")
      [] start.Name.Local = "cite" -> NewInContent(h, n, "Cite")
      [] start.Name.Local = "subtitle" -> NewInContent(h, n, "P")
      [] start.Name.Local = "table" -> NewInContent(h, n, "Table")
      [] start.Name.Local = "empty-line" -> NewInContent(h, n, "EmptyLine")
      [] OTHER -> baseNode_tagCallback(h, n, start)

(* A variant of Section.tagCallback that puts every image in the Image slot. *)
Section_tagCallback_imageSlot(h, n, start) ==
    CASE start.Name.Local = "image" -> NewInSlot(h, n, "Image", "Image")
      [] start.Name.Local = "p" -> NewInContent(h, n, "P")
      [] start.Name.Local = "empty-line" -> NewInContent(h, n, "EmptyLine")
      [] OTHER -> baseNode_tagCallback(h, n, start)

Section_tagCallback(h, n, start) ==
    CASE start.Name.Local = "title" -> NewInSlot(h, n, "Title", "Title")
      [] start.Name.Local = "epigraph" -> NewInList(h, n, "Epigraph", "Epigraphs")
      [] start.Name.Local = "image" ->
            IF Len(h[n].Content) > 0
            THEN NewInContent(h, n, "Image")
            ELSE NewInSlot(h, n, "Image", "Image")
      [] start.Name.Local = "annotation" -> NewInSlot(h, n, "Annotation", "Annotation")
      [] start.Name.Local = "section" -> NewInList(h, n, "Section", "Sections")
      [] start.Name.Local = "p" -> NewInContent(h, n, "P")
      [] start.Name.Local = "poem" -> NewInContent(h, n, "Poem")
      [] start.Name.Local = "subtitle" -> NewInContent(h, n, "P")
      [] start.Name.Local = "cite" -> NewInContent(h, n, "Cite")
      [] start.Name.Local = "empty-line" -> NewInContent(h, n, "EmptyLine")
      [] start.Name.Local = "table" -> NewInContent(h, n, "Table")
      [] OTHER -> baseNode_tagCallback(h, n, start)

StyleType_tagCallback(h, n, start) ==
    CASE start.Name.Local = "style" -> NewInContent(h, n, "NamedStyleType")
      [] start.Name.Local = "a" -> NewInContent(h, n, "Link")
      [] start.Name.Local = "image" -> NewInContent(h, n, "InlineImage")
      [] start.Name.Local \in {"strong", "emphasis", "strikethrough", "sub", "sup", "code"} ->
            NewInContent(h, n, "StyleType")
      [] OTHER -> baseNode_tagCallback(h, n, start)

(* A variant of StyleLinkType.tagCallback that knows the tag a as well. *)
StyleLinkType_tagCallback_nesting(h, n, start) ==
    CASE start.Name.Local = "a" -> NewInContent(h, n, "Link")
      [] start.Name.Local = "image" -> NewInContent(h, n, "InlineImage")
      [] start.Name.Local \in
            {"style", "strong", "emphasis", "strikethrough", "sub", "sup", "code"} ->
            NewInContent(h, n, "StyleLinkType")
      [] OTHER -> baseNode_tagCallback(h, n, start)

StyleLinkType_tagCallback(h, n, start) ==
    CASE start.Name.Local = "image" -> NewInContent(h, n, "InlineImage")
      [] start.Name.Local \in
            {"style", "strong", "emphasis", "strikethrough", "sub", "sup", "code"} ->
            NewInContent(h, n, "StyleLinkType")
      [] OTHER -> baseNode_tagCallback(h, n, start)

(* return &stringNode{s: &t.ID}, nil: the sink points at field ID of node n *)
NewStringNode(h, n, F) ==
    LET id == Len(h) + 1
    IN  Result(Append(h, [New("stringNode") EXCEPT !.s = n, !.field = F]), id, nilErr)

Table_tagCallback(h, n, start) ==
    CASE start.Name.Local = "id" -> NewStringNode(h, n, "ID")
      [] start.Name.Local = "tr" -> NewInList(h, n, "TR", "TR")
      [] OTHER -> baseNode_tagCallback(h, n, start)

(* A variant of TR.tagCallback that knows td only. *)
TR_tagCallback_tdOnly(h, n, start) ==
    CASE start.Name.Local = "td" -> NewInContent(h, n, "TD")
      [] OTHER -> baseNode_tagCallback(h, n, start)

TR_tagCallback(h, n, start) ==
    CASE start.Name.Local \in {"th", "td"} -> NewInContent(h, n, "TD")
      [] OTHER -> baseNode_tagCallback(h, n, start)

Body_tagCallback(h, n, start) ==
    CASE start.Name.Local = "image" -> NewInSlot(h, n, "Image", "Image")
      [] start.Name.Local = "title" -> NewInSlot(h, n, "Title", "Title")
      [] start.Name.Local = "epigraph" -> NewInList(h, n, "Epigraph", "Epigraphs")
      [] start.Name.Local = "section" -> NewInList(h, n, "Section", "Sections")
      [] OTHER -> baseNode_tagCallback(h, n, start)

FictionBook_tagCallback(h, n, start) ==
    CASE start.Name.Local = "stylesheet" -> NewInList(h, n, "Stylesheet", "Stylesheet")
      [] start.Name.Local = "description" -> NewInSlot(h, n, "Description", "Description")
      [] start.Name.Local = "body" ->
            IF Len(start.Attr) = 0
            THEN NewInSlot(h, n, "Body", "Body")
            ELSE IF start.Attr[1].Name.Local = "name" /\ start.Attr[1].Value = "notes"
            THEN NewInSlot(h, n, "NotesBody", "NotesBody")
            ELSE Result(h, NIL, "Unknown body with attr")
      [] start.Name.Local = "binary" -> NewInList(h, n, "Binary", "Binary")
      [] OTHER -> baseNode_tagCallback(h, n, start)

Description_tagCallback(h, n, start) ==
    CASE start.Name.Local = "title-info" -> NewInSlot(h, n, "TitleInfo", "TitleInfo")
      [] start.Name.Local = "src-title-info" -> NewInSlot(h, n, "TitleInfo", "SrcTitleInfo")
      [] start.Name.Local = "document-info" -> NewInSlot(h, n, "DocumentInfo", "DocumentInfo")
      [] start.Name.Local = "publish-info" -> NewInSlot(h, n, "PublishInfo", "PublishInfo")
      [] start.Name.Local = "custom-info" -> NewInList(h, n, "CustomInfo", "CustomInfo")
      [] start.Name.Local = "output" -> NewInList(h, n, "ShareInstruction", "Output")
      [] OTHER -> baseNode_tagCallback(h, n, start)

(* return &floatNode{f: &di.Version}, nil and return &stringArrayNode{s: &di.SrcURLs}, nil *)
NewSink(h, n, kind, F) ==
    Result(Append(h, [New(kind) EXCEPT !.s = n, !.field = F]), Len(h) + 1, nilErr)

Author_tagCallback(h, n, start) ==
    CASE start.Name.Local = "first-name" -> NewInSlot(h, n, "TextField", "FirstName")
      [] start.Name.Local = "middle-name" -> NewInSlot(h, n, "TextField", "MiddleName")
      [] start.Name.Local = "last-name" -> NewInSlot(h, n, "TextField", "LastName")
      [] start.Name.Local = "nickname" -> NewInSlot(h, n, "TextField", "Nickname")
      [] start.Name.Local = "home-page" -> NewSink(h, n, "stringArrayNode", "HomePages")
      [] start.Name.Local = "email" -> NewSink(h, n, "stringArrayNode", "Emails")
      [] start.Name.Local = "id" -> NewStringNode(h, n, "ID")
      [] OTHER -> baseNode_tagCallback(h, n, start)

DocumentInfo_tagCallback(h, n, start) ==
    CASE start.Name.Local = "author" -> NewInList(h, n, "Author", "Authors")
      [] start.Name.Local = "program-used" -> NewInSlot(h, n, "TextField", "ProgramUsed")
      [] start.Name.Local = "date" -> NewInSlot(h, n, "Date", "Date")
      [] start.Name.Local = "src-url" -> NewSink(h, n, "stringArrayNode", "SrcURLs")
      [] start.Name.Local = "src-ocr" -> NewInSlot(h, n, "TextField", "SrcOcr")
      [] start.Name.Local = "id" -> NewStringNode(h, n, "ID")
      [] start.Name.Local = "version" -> NewSink(h, n, "floatNode", "Version")
      [] start.Name.Local = "history" -> NewInSlot(h, n, "Annotation", "History")
      [] start.Name.Local = "publisher" -> NewInList(h, n, "Author", "Publishers")
      [] OTHER -> baseNode_tagCallback(h, n, start)

(* Method dispatch on the dynamic type of node n (Go embedding: P, TD and  *)
(* NamedStyleType take StyleType's method, Link takes StyleLinkType's,     *)
(* NotesBody takes Body's, every other type takes baseNode's).             *)
tagCallback(h, n, start) ==
    CASE h[n].kind = "Title" -> Title_tagCallback(h, n, start)
      [] h[n].kind = "Cite" -> Cite_tagCallback(h, n, start)
      [] h[n].kind = "Poem" -> Poem_tagCallback(h, n, start)
      [] h[n].kind = "Stanza" -> Stanza_tagCallback(h, n, start)
      [] h[n].kind = "Epigraph" -> Epigraph_tagCallback(h, n, start)
      [] h[n].kind = "Annotation" -> Annotation_tagCallback(h, n, start)
      [] h[n].kind = "Section" -> Section_tagCallback(h, n, start)
      [] h[n].kind \in {"StyleType", "P", "TD", "NamedStyleType"} ->
            StyleType_tagCallback(h, n, start)
      [] h[n].kind \in {"StyleLinkType", "Link"} -> StyleLinkType_tagCallback(h, n, start)
      [] h[n].kind = "Table" -> Table_tagCallback(h, n, start)
      [] h[n].kind = "Author" -> Author_tagCallback(h, n, start)
      [] h[n].kind = "TR" -> TR_tagCallback(h, n, start)
      [] h[n].kind \in {"Body", "NotesBody"} -> Body_tagCallback(h, n, start)
      [] h[n].kind = "FictionBook" -> FictionBook_tagCallback(h, n, start)
      [] h[n].kind = "Description" -> Description_tagCallback(h, n, start)
      [] h[n].kind = "DocumentInfo" -> DocumentInfo_tagCallback(h, n, start)
      [] OTHER -> baseNode_tagCallback(h, n, start)

-----------------------------------------------------------------------------
(* strconv.Atoi on a string of decimal digits with an optional sign: the   *)
(* value and a nil error, or 0 and a syntax error.                         *)

Digit(c) ==
    CASE c = "0" -> 0 [] c = "1" -> 1 [] c = "2" -> 2 [] c = "3" -> 3 [] c = "4" -> 4
      [] c = "5" -> 5 [] c = "6" -> 6 [] c = "7" -> 7 [] c = "8" -> 8 [] c = "9" -> 9
      [] OTHER -> -1

RECURSIVE Digits(_, _)
Digits(s, acc) ==
    IF Len(s) = 0 THEN acc
    ELSE IF acc < 0 \/ Digit(SubSeq(s, 1, 1)) < 0 THEN -1
    ELSE Digits(SubSeq(s, 2, Len(s)), 10 * acc + Digit(SubSeq(s, 1, 1)))

(* A variant of Atoi that stops at the first character that is no digit. *)
Atoi_prefix(s) ==
    IF Len(s) > 0 /\ Digit(SubSeq(s, 1, 1)) >= 0
    THEN [v |-> Digit(SubSeq(s, 1, 1)), err |-> nilErr]
    ELSE [v |-> 0, err |-> "strconv.Atoi: invalid syntax"]

Atoi(s) ==
    LET neg == Len(s) > 0 /\ SubSeq(s, 1, 1) = "-"
        signed == Len(s) > 0 /\ SubSeq(s, 1, 1) \in {"-", "+"}
        body == IF signed THEN SubSeq(s, 2, Len(s)) ELSE s
        v == IF Len(body) = 0 THEN -1 ELSE Digits(body, 0)
    IN  IF v < 0 THEN [v |-> 0, err |-> "strconv.Atoi: invalid syntax"]
        ELSE [v |-> IF neg THEN 0 - v ELSE v, err |-> nilErr]

(* strconv.ParseFloat(s, 64) on a decimal numeral: an optional sign, digits *)
(* and at most one point, with a digit on one side of it at least.  A      *)
(* float64 is kept in thousandths (1.5 is 1500).  Any other string is a    *)
(* syntax error with value 0.                                              *)
RECURSIVE PointAt(_, _)
PointAt(s, i) ==
    IF i > Len(s) THEN 0
    ELSE IF SubSeq(s, i, i) = "." THEN i ELSE PointAt(s, i + 1)

ParseFloat(s) ==
    LET neg == Len(s) > 0 /\ SubSeq(s, 1, 1) = "-"
        signed == Len(s) > 0 /\ SubSeq(s, 1, 1) \in {"-", "+"}
        body == IF signed THEN SubSeq(s, 2, Len(s)) ELSE s
        dot == PointAt(body, 1)
        int == IF dot = 0 THEN body ELSE SubSeq(body, 1, dot - 1)
        frac == IF dot = 0 THEN "" ELSE SubSeq(body, dot + 1, Len(body))
        frac3 == SubSeq(frac \o "000", 1, 3)
        iv == Digits(int, 0)
        fv == Digits(frac3, 0)
        bad == (Len(int) = 0 /\ Len(frac) = 0) \/ iv < 0 \/ fv < 0 \/ Digits(frac, 0) < 0
    IN  IF bad THEN [v |-> 0, err |-> "strconv.ParseFloat: invalid syntax"]
        ELSE [v |-> (IF neg THEN -1 ELSE 1) * (iv * 1000 + fv), err |-> nilErr]

(* time.Parse(dateFormat, s) with dateFormat "2006-01-02": four digits, a  *)
(* dash, two digits, a dash, two digits and nothing more; the month in     *)
(* 1..12 and the day within the month.  The value is <<year, month, day>>. *)
dateFormat == "2006-01-02"

DaysIn(y, m) ==
    IF m = 2 THEN (IF (y % 4 = 0 /\ y % 100 # 0) \/ y % 400 = 0 THEN 29 ELSE 28)
    ELSE IF m \in {4, 6, 9, 11} THEN 30 ELSE 31

time_Parse(layout, s) ==
    LET y == IF Len(s) >= 4 THEN Digits(SubSeq(s, 1, 4), 0) ELSE -1
        m == IF Len(s) >= 7 THEN Digits(SubSeq(s, 6, 7), 0) ELSE -1
        d == IF Len(s) >= 10 THEN Digits(SubSeq(s, 9, 10), 0) ELSE -1
        shaped == /\ Len(s) = Len(layout)
                  /\ SubSeq(s, 5, 5) = "-" /\ SubSeq(s, 8, 8) = "-"
                  /\ y >= 0 /\ m >= 0 /\ d >= 0
    IN  IF ~shaped THEN [v |-> NIL, err |-> "parsing time: cannot parse"]
        ELSE IF m < 1 \/ m > 12 THEN [v |-> NIL, err |-> "parsing time: month out of range"]
        ELSE IF d < 1 \/ d > DaysIn(y, m)
        THEN [v |-> NIL, err |-> "parsing time: day out of range"]
        ELSE [v |-> <<y, m, d>>, err |-> nilErr]

-----------------------------------------------------------------------------
(* attrCallback, by receiver type. *)

Set(h, n, F, value) == Result([h EXCEPT ![n][F] = value], NIL, nilErr)

baseNode_attrCallback(h, n, attr) == Result(h, NIL, "unexpected attr")

Title_attrCallback(h, n, attr) ==
    IF attr.Name.Local = "lang" THEN Set(h, n, "Lang", attr.Value)
    ELSE baseNode_attrCallback(h, n, attr)

StyleType_attrCallback(h, n, attr) ==
    IF attr.Name.Local = "lang" THEN Set(h, n, "Lang", attr.Value)
    ELSE Result(h, NIL, "unknown attr")

P_attrCallback(h, n, attr) ==
    IF attr.Name.Local = "style" THEN Set(h, n, "Style", attr.Value)
    ELSE IF attr.Name.Local = "id" THEN Set(h, n, "ID", attr.Value)
    ELSE StyleType_attrCallback(h, n, attr)

Cite_attrCallback(h, n, attr) ==
    IF attr.Name.Local = "lang" THEN Set(h, n, "Lang", attr.Value)
    ELSE IF attr.Name.Local = "id" THEN Set(h, n, "ID", attr.Value)
    ELSE baseNode_attrCallback(h, n, attr)

Stanza_attrCallback(h, n, attr) ==
    IF attr.Name.Local = "lang" THEN Set(h, n, "Lang", attr.Value)
    ELSE baseNode_attrCallback(h, n, attr)

Epigraph_attrCallback(h, n, attr) ==
    IF attr.Name.Local = "id" THEN Set(h, n, "ID", attr.Value)
    ELSE Result(h, NIL, "unknown attr")

Annotation_attrCallback(h, n, attr) ==
    IF attr.Name.Local = "lang" THEN Set(h, n, "Lang", attr.Value)
    ELSE IF attr.Name.Local = "id" THEN Set(h, n, "ID", attr.Value)
    ELSE Result(h, NIL, "unknown attr")

Section_attrCallback(h, n, attr) ==
    IF attr.Name.Local = "lang" THEN Set(h, n, "Lang", attr.Value)
    ELSE IF attr.Name.Local = "id" THEN Set(h, n, "ID", attr.Value)
    ELSE baseNode_attrCallback(h, n, attr)

NamedStyleType_attrCallback(h, n, attr) ==
    IF attr.Name.Local = "name" THEN Set(h, n, "Name", attr.Value)
    ELSE StyleType_attrCallback(h, n, attr)

Link_attrCallback(h, n, attr) ==
    CASE attr.Name.Local = "type" ->
            IF attr.Name.Space = "" THEN Set(h, n, "Type", attr.Value)
            ELSE Set(h, n, "XlinkType", attr.Value)
      [] attr.Name.Local = "href" -> Set(h, n, "XlinkHref", attr.Value)
      [] OTHER -> Result(h, NIL, "unknown attr")

Table_attrCallback(h, n, attr) ==
    IF attr.Name.Local = "style" THEN Set(h, n, "Style", attr.Value)
    ELSE baseNode_attrCallback(h, n, attr)

TR_attrCallback(h, n, attr) ==
    IF attr.Name.Local = "align" THEN Set(h, n, "Align", attr.Value)
    ELSE baseNode_attrCallback(h, n, attr)

(* colspan, rowspan: the field is assigned Atoi's value (0 on failure)     *)
(* before the error is returned.                                           *)
TD_attrCallback(h, n, attr) ==
    CASE attr.Name.Local = "id" -> Set(h, n, "ID", attr.Value)
      [] attr.Name.Local = "style" -> Set(h, n, "Style", attr.Value)
      [] attr.Name.Local = "colspan" ->
            Result([h EXCEPT ![n].Colspan = Atoi(attr.Value).v], NIL, Atoi(attr.Value).err)
      [] attr.Name.Local = "rowspan" ->
            Result([h EXCEPT ![n].Rowspan = Atoi(attr.Value).v], NIL, Atoi(attr.Value).err)
      [] attr.Name.Local = "align" -> Set(h, n, "Align", attr.Value)
      [] attr.Name.Local = "valign" -> Set(h, n, "Valign", attr.Value)
      [] OTHER -> baseNode_attrCallback(h, n, attr)

InlineImage_attrCallback(h, n, attr) ==
    CASE attr.Name.Local = "type" -> Set(h, n, "XlinkType", attr.Value)
      [] attr.Name.Local = "href" -> Set(h, n, "XlinkHref", attr.Value)
      [] attr.Name.Local = "alt" -> Set(h, n, "Alt", attr.Value)
      [] OTHER -> baseNode_attrCallback(h, n, attr)

Body_attrCallback(h, n, attr) ==
    IF attr.Name.Local = "lang" THEN Set(h, n, "Lang", attr.Value)
    ELSE baseNode_attrCallback(h, n, attr)

NotesBody_attrCallback(h, n, attr) ==
    IF attr.Name.Local = "name" THEN Set(h, n, "Name", attr.Value)
    ELSE Body_attrCallback(h, n, attr)

FictionBook_attrCallback(h, n, attr) == Result(h, NIL, nilErr)

Binary_attrCallback(h, n, attr) ==
    IF attr.Name.Local = "content-type" THEN Set(h, n, "ContentType", attr.Value)
    ELSE IF attr.Name.Local = "id" THEN Set(h, n, "ID", attr.Value)
    ELSE baseNode_attrCallback(h, n, attr)

(* Method dispatch on the dynamic type of node n. *)
(* parse, err := time.Parse(dateFormat, attr.Value); if err != nil { return err } *)
Date_value(h, n, parse) ==
    IF parse.err # nilErr THEN Result(h, NIL, parse.err) ELSE Set(h, n, "Value", parse.v)

Date_attrCallback(h, n, attr) ==
    IF attr.Name.Local = "value" THEN Date_value(h, n, time_Parse(dateFormat, attr.Value))
    ELSE IF attr.Name.Local = "lang" THEN Set(h, n, "Lang", attr.Value)
    ELSE baseNode_attrCallback(h, n, attr)

attrCallback(h, n, attr) ==
    CASE h[n].kind = "Title" -> Title_attrCallback(h, n, attr)
      [] h[n].kind = "P" -> P_attrCallback(h, n, attr)
      [] h[n].kind = "Cite" -> Cite_attrCallback(h, n, attr)
      [] h[n].kind = "Stanza" -> Stanza_attrCallback(h, n, attr)
      [] h[n].kind = "Epigraph" -> Epigraph_attrCallback(h, n, attr)
      [] h[n].kind = "Annotation" -> Annotation_attrCallback(h, n, attr)
      [] h[n].kind = "Section" -> Section_attrCallback(h, n, attr)
      [] h[n].kind = "StyleType" -> StyleType_attrCallback(h, n, attr)
      [] h[n].kind = "NamedStyleType" -> NamedStyleType_attrCallback(h, n, attr)
      [] h[n].kind = "Link" -> Link_attrCallback(h, n, attr)
      [] h[n].kind = "Table" -> Table_attrCallback(h, n, attr)
      [] h[n].kind = "TR" -> TR_attrCallback(h, n, attr)
      [] h[n].kind = "TD" -> TD_attrCallback(h, n, attr)
      [] h[n].kind = "InlineImage" -> InlineImage_attrCallback(h, n, attr)
      [] h[n].kind = "Body" -> Body_attrCallback(h, n, attr)
      [] h[n].kind = "NotesBody" -> NotesBody_attrCallback(h, n, attr)
      [] h[n].kind = "FictionBook" -> FictionBook_attrCallback(h, n, attr)
      [] h[n].kind = "Binary" -> Binary_attrCallback(h, n, attr)
      [] h[n].kind = "Date" -> Date_attrCallback(h, n, attr)
      [] OTHER -> baseNode_attrCallback(h, n, attr)

-----------------------------------------------------------------------------
(* charDataCallback, by receiver type.  e is the CharData token; at is its *)
(* index in the token stream (kept in the history field pos).              *)

baseNode_charDataCallback(h, n, e, at) == Result(h, NIL, nilErr)

(* A variant of mixed.charDataCallback that keeps no text, as baseNode does. *)
mixed_charDataCallback_drop(h, n, e, at) == Result(h, NIL, nilErr)

(* A variant of mixed.charDataCallback that appends the run twice. *)
mixed_charDataCallback_twice(h, n, e, at) ==
    Result([h EXCEPT ![n].Content = Append(Append(@, Chars(e.Data, at)), Chars(e.Data, at))],
           NIL, nilErr)

(* tmp := make(CharData, len(e)); copy(tmp, e); m.Content = append(m.Content, tmp) *)
mixed_charDataCallback(h, n, e, at) ==
    Result([h EXCEPT ![n].Content = Append(@, Chars(e.Data, at))], NIL, nilErr)

(* base64.StdEncoding.Decode(dst, src): the bytes written to dst and the   *)
(* error.  Line breaks are skipped; a quantum is four characters of the    *)
(* alphabet, or two or three followed by padding that ends the input.      *)
B64Alphabet == "ABCDEFGHIJKLMNOPQRSTUVWXYZabcdefghijklmnopqrstuvwxyz0123456789+/"
B64Index(c) ==
    IF \E i \in 1..Len(B64Alphabet) : SubSeq(B64Alphabet, i, i) = c
    THEN (CHOOSE i \in 1..Len(B64Alphabet) : SubSeq(B64Alphabet, i, i) = c) - 1
    ELSE -1

RECURSIVE StripNewlines(_)
StripNewlines(s) ==
    IF Len(s) = 0 THEN s
    ELSE IF SubSeq(s, 1, 1) \in {"\n", "\r"} THEN StripNewlines(SubSeq(s, 2, Len(s)))
    ELSE SubSeq(s, 1, 1) \o StripNewlines(SubSeq(s, 2, Len(s)))

RECURSIVE DecodeQuanta(_, _)
DecodeQuanta(s, out) ==
    LET c(i) == SubSeq(s, i, i)
        v(i) == B64Index(c(i))
        rest == SubSeq(s, 5, Len(s))
        bits == v(1) * 262144 + v(2) * 4096
                + (IF v(3) >= 0 THEN v(3) * 64 ELSE 0) + (IF v(4) >= 0 THEN v(4) ELSE 0)
        b1 == bits \div 65536
        b2 == (bits \div 256) % 256
        b3 == bits % 256
        corrupt == [bytes |-> out, err |-> "illegal base64 data"]
    IN  IF Len(s) = 0 THEN [bytes |-> out, err |-> nilErr]
        ELSE IF Len(s) < 4 \/ v(1) < 0 \/ v(2) < 0 THEN corrupt
        ELSE IF v(3) >= 0 /\ v(4) >= 0 THEN DecodeQuanta(rest, out \o <<b1, b2, b3>>)
        ELSE IF v(3) >= 0 /\ c(4) = "=" /\ Len(rest) = 0
        THEN [bytes |-> out \o <<b1, b2>>, err |-> nilErr]
        ELSE IF c(3) = "=" /\ c(4) = "=" /\ Len(rest) = 0
        THEN [bytes |-> out \o <<b1>>, err |-> nilErr]
        ELSE corrupt

Decode(src) == DecodeQuanta(StripNewlines(src), <<>>)

(* b.Value = make([]byte, len(cd)); n, err := Decode(b.Value, cd);         *)
(* if err != nil { return err }; b.Value = b.Value[:n]                     *)
Binary_charDataCallback(h, n, e, at) ==
    LET d == Decode(e.Data)
        buf == d.bytes \o [i \in 1..(Len(e.Data) - Len(d.bytes)) |-> 0]
    IN  IF d.err # nilErr THEN Result([h EXCEPT ![n].Value = buf], NIL, d.err)
        ELSE Result([h EXCEPT ![n].Value = d.bytes], NIL, nilErr)

(* s.Value = cd: the slice header is copied, not the bytes; from here on   *)
(* Value shares its bytes with the token (shared).                         *)
Stylesheet_charDataCallback(h, n, e, at) ==
    Result([h EXCEPT ![n].Value = e.Data, ![n].shared = TRUE], NIL, nilErr)

(* the string s.s points at becomes string(cd) *)
stringNode_charDataCallback(h, n, e, at) ==
    Result([h EXCEPT ![h[n].s][h[n].field] = e.Data], NIL, nilErr)

(* fl, err := strconv.ParseFloat(string(cd), 64); the float f.f points at *)
(* becomes fl; return err                                                  *)
floatNode_store(h, n, fl) == Result([h EXCEPT ![h[n].s][h[n].field] = fl.v], NIL, fl.err)

floatNode_charDataCallback(h, n, e, at) == floatNode_store(h, n, ParseFloat(e.Data))

(* A variant of stringArrayNode.charDataCallback that keeps the last run only. *)
stringArrayNode_charDataCallback_last(h, n, e, at) ==
    Result([h EXCEPT ![h[n].s][h[n].field] = <<e.Data>>], NIL, nilErr)

(* the string of this run is appended to the slice s.s points at *)
stringArrayNode_charDataCallback(h, n, e, at) ==
    Result([h EXCEPT ![h[n].s][h[n].field] = Append(@, e.Data)], NIL, nilErr)

(* d.StrValue = string(cd) *)
Date_charDataCallback(h, n, e, at) ==
    Result([h EXCEPT ![n].StrValue = e.Data], NIL, nilErr)

charDataCallback(h, n, e, at) ==
    CASE h[n].kind \in MixedKinds -> mixed_charDataCallback(h, n, e, at)
      [] h[n].kind = "Binary" -> Binary_charDataCallback(h, n, e, at)
      [] h[n].kind = "Stylesheet" -> Stylesheet_charDataCallback(h, n, e, at)
      [] h[n].kind = "stringNode" -> stringNode_charDataCallback(h, n, e, at)
      [] h[n].kind = "floatNode" -> floatNode_charDataCallback(h, n, e, at)
      [] h[n].kind = "stringArrayNode" -> stringArrayNode_charDataCallback(h, n, e, at)
      [] h[n].kind = "Date" -> Date_charDataCallback(h, n, e, at)
      [] OTHER -> baseNode_charDataCallback(h, n, e, at)

(* SetXMLName / GetXMLName of baseNode (every type's, through embedding). *)
(* A variant of SetXMLName that leaves the name alone. *)
SetXMLName_skip(h, n, name, at) == [h EXCEPT ![n].pos = at]

SetXMLName(h, n, name, at) == [h EXCEPT ![n].XMLName = name, ![n].pos = at]
GetXMLName(h, n) == h[n].XMLName

-----------------------------------------------------------------------------
(* Parser.ParseToken.  The parser state is (h, stk, lst); the result is    *)
(* the state the call leaves, the error it returns, and whether it died of *)
(* a nil dereference instead of returning.                                 *)

PResult(h, stk, lst, err) ==
    [nodes |-> h, stack |-> stk, last |-> lst, err |-> err, panic |-> FALSE]

(* for _, attr := range e.Attr { err := p.last.attrCallback(attr); if err != nil { return err } } *)
RECURSIVE attrLoop(_, _, _)
attrLoop(h, n, attrs) ==
    IF attrs = <<>> THEN Result(h, NIL, nilErr)
    ELSE LET r == attrCallback(h, n, Head(attrs))
         IN  IF r.err # nilErr THEN r ELSE attrLoop(r.heap, n, Tail(attrs))

(* case xml.StartElement, after tagCallback returned r without error:     *)
(* push, SetXMLName, then the attribute loop                               *)
ParseAttrs(stk, node, e, a) == PResult(a.heap, stk, node, a.err)

(* A variant that does not push the current node. *)
ParseAccepted_noPush(stk, lst, e, at, r) ==
    ParseAttrs(stk, r.node, e,
               attrLoop(SetXMLName(r.heap, r.node, e.Name, at), r.node, e.Attr))

ParseAccepted(stk, lst, e, at, r) ==
    ParseAttrs(IF lst # NIL THEN Append(stk, lst) ELSE stk, r.node, e,
               attrLoop(SetXMLName(r.heap, r.node, e.Name, at), r.node, e.Attr))

ParseTagResult(h, stk, lst, e, at, r) ==
    IF r.err # nilErr THEN PResult(r.heap, stk, lst, r.err)
    ELSE ParseAccepted(stk, lst, e, at, r)

(* case xml.StartElement *)
ParseStartElement(h, stk, lst, e, at) ==
    ParseTagResult(h, stk, lst, e, at,
                   IF lst # NIL THEN tagCallback(h, lst, e) ELSE Result(h, first, nilErr))

(* A variant that compares the local names only. *)
ParseEndElement_localOnly(h, stk, lst, e, at) ==
    IF lst = NIL THEN [PResult(h, stk, lst, "panic") EXCEPT !.panic = TRUE]
    ELSE IF GetXMLName(h, lst).Local # e.Name.Local
    THEN PResult(h, stk, lst, "unexpected close tag")
    ELSE IF Len(stk) > 0 THEN PResult(h, SubSeq(stk, 1, Len(stk) - 1), stk[Len(stk)], nilErr)
    ELSE PResult(h, stk, NIL, nilErr)

(* case xml.EndElement: p.last.GetXMLName() on a nil p.last is a nil dereference *)
ParseEndElement(h, stk, lst, e, at) ==
    IF lst = NIL THEN [PResult(h, stk, lst, "panic") EXCEPT !.panic = TRUE]
    ELSE IF GetXMLName(h, lst) # e.Name THEN PResult(h, stk, lst, "unexpected close tag")
    ELSE IF Len(stk) > 0 THEN PResult(h, SubSeq(stk, 1, Len(stk) - 1), stk[Len(stk)], nilErr)
    ELSE PResult(h, stk, NIL, nilErr)

(* A variant that hands a text run to the root when no node is current. *)
ParseCharData_toRoot(h, stk, lst, e, at) ==
    LET r == charDataCallback(h, IF lst # NIL THEN lst ELSE first, e, at)
    IN  PResult(r.heap, stk, lst, r.err)

(* case xml.CharData *)
ParseCharData(h, stk, lst, e, at) ==
    IF lst # NIL
    THEN LET r == charDataCallback(h, lst, e, at) IN PResult(r.heap, stk, lst, r.err)
    ELSE PResult(h, stk, lst, nilErr)

ParseToken(h, stk, lst, token, at) ==
    CASE token.type = "StartElement" -> ParseStartElement(h, stk, lst, token, at)
      [] token.type = "EndElement" -> ParseEndElement(h, stk, lst, token, at)
      [] token.type = "CharData" -> ParseCharData(h, stk, lst, token, at)

-----------------------------------------------------------------------------
(* The token source.  Each input alphabet is a root type and the tokens    *)
(* the source may deliver: open tags (with attribute lists), close tags    *)
(* and text runs.  A close tag either closes the innermost open element of *)
(* the document or is the mismatching name BadClose.                       *)

BadClose == Name("div")

RootKind(in) ==
    CASE in \in {"section", "leaf", "slots", "image"} -> "Section"
      [] in = "pair" -> "P"
      [] in = "inline" -> "P"
      [] in = "attrs" -> "TD"
      [] in \in {"book", "description"} -> "FictionBook"
      [] in \in {"info", "sinks"} -> "DocumentInfo"
      [] in \in {"table", "grid"} -> "Table"
      [] in = "poem" -> "Poem"
      [] in = "stanza" -> "Stanza"
      [] in = "link" -> "Link"

Limit(in) ==
    CASE in \in {"section", "inline", "leaf"} -> MaxTokens
      [] in = "attrs" -> MaxAttrTokens
      [] in = "book" -> MaxBookTokens
      [] in = "description" -> MaxDescTokens
      [] in = "info" -> MaxInfoTokens
      [] in = "sinks" -> MaxSinkTokens
      [] in = "image" -> MaxImageTokens
      [] in = "stanza" -> MaxStanzaTokens
      [] in = "table" -> MaxTableTokens
      [] in = "grid" -> MaxGridTokens
      [] in = "slots" -> MaxSlotTokens
      [] in = "link" -> MaxLinkTokens
      [] in = "pair" -> MaxPairTokens
      [] in = "poem" -> MaxReadTokens

(* The name of the innermost open element of the document.  The table     *)
(* alphabets follow the table grammar: rows in the table, cells (td or th) *)
(* in a row; "table" has text runs between rows and between cells as well, *)
(* "grid" has none and longer documents.  The poem alphabet has stanzas in *)
(* the poem, lines (v) in a stanza and text in a line.  The sinks alphabet *)
(* has the scalar children of a DocumentInfo and of its authors, with text *)
(* inside them.  The stanza alphabet has the title, the subtitle and the   *)
(* lines of a Stanza, with text in the lines.                              *)
Innermost(doc) == IF doc = <<>> THEN Name("") ELSE doc[Len(doc)].Name

Tags(locals) == {StartElement(Name(l), <<>>) : l \in locals}

AttrChoices ==
    {Attr(Name("colspan"), "12"), Attr(Name("colspan"), "1x"),
     Attr(Name("id"), "c1"), Attr(Name("bogus"), "v")}
AttrLists == {<<>>} \cup {<<a>> : a \in AttrChoices}
                \cup {<<a, b>> : a \in AttrChoices, b \in AttrChoices}

BodyAttrLists ==
    {<<>>, <<Attr(Name("name"), "notes")>>,
     <<Attr(Name("lang"), "en"), Attr(Name("name"), "notes")>>}

DateAttrLists ==
    {<<>>, <<Attr(Name("value"), "2020-02-29")>>, <<Attr(Name("value"), "2021-02-29")>>,
     <<Attr(Name("value"), "2021-02-29"), Attr(Name("lang"), "en")>>,
     <<Attr(Name("lang"), "en"), Attr(Name("value"), "2021-02-29")>>}

(* A plain type/href pair and a type/href pair in the xlink namespace, in  *)
(* every order; one of the four alone; none.                               *)
xlink == "http://www.w3.org/1999/xlink"
LinkAttrChoices ==
    {Attr(Name("type"), "note"), Attr(Name("href"), "#plain"),
     Attr(QName(xlink, "type"), "simple"), Attr(QName(xlink, "href"), "#xlink")}
LinkAttrLists ==
    {<<>>} \cup {<<a>> : a \in LinkAttrChoices}
    \cup {l \in {<<a, b, c, d>> : a, b, c, d \in LinkAttrChoices} :
             {l[1], l[2], l[3], l[4]} = LinkAttrChoices}

(* The attributes of an image tag: one of the five alone, the five, none. *)
ImageAttrChoices ==
    <<Attr(Name("href"), "#i"), Attr(Name("type"), "simple"), Attr(Name("alt"), "a"),
      Attr(Name("title"), "t"), Attr(Name("id"), "i1")>>
ImageAttrLists ==
    {<<>>, ImageAttrChoices} \cup {<<ImageAttrChoices[i]>> : i \in 1..5}

(* The document element carries the root's own tag. *)
RootTag(in) ==
    CASE in \in {"section", "leaf", "slots", "image"} -> "section"
      [] in = "pair" -> "p"
      [] in = "inline" -> "p"
      [] in = "attrs" -> "td"
      [] in \in {"book", "description"} -> "FictionBook"
      [] in \in {"info", "sinks"} -> "document-info"
      [] in \in {"table", "grid"} -> "table"
      [] in = "poem" -> "poem"
      [] in = "stanza" -> "stanza"
      [] in = "link" -> "a"

StartTokens(in, doc) ==
    CASE in = "attrs" -> {StartElement(Name("td"), al) : al \in AttrLists}
      [] in = "link" -> {StartElement(Name("a"), al) : al \in LinkAttrLists}
      [] doc = <<>> -> Tags({RootTag(in)})
      [] in = "section" -> Tags({"section", "title", "p", "foo"})
      [] in = "inline" -> Tags({"p", "strong", "a"})
      [] in = "leaf" -> Tags({"p", "empty-line", "image"})
      [] in = "image" ->
            Tags({"p"}) \cup {StartElement(Name("image"), al) : al \in ImageAttrLists}
      [] in = "pair" -> Tags({"strong"})
      [] in = "slots" ->
            Tags({"title", "image", "epigraph", "text-author", "p", "cite", "poem"})
      [] in = "book" ->
            Tags({"binary", "foo", "stylesheet"})
            \cup {StartElement(Name("body"), al) : al \in BodyAttrLists}
      [] in = "description" -> Tags({"description", "title-info"})
      [] in = "info" ->
            Tags({"version"}) \cup {StartElement(Name("date"), al) : al \in DateAttrLists}
      [] in \in {"table", "grid"} ->
            CASE Innermost(doc) = Name("table") -> Tags({"tr"})
              [] Innermost(doc) = Name("tr") -> Tags({"td", "th"})
              [] OTHER -> {}
      [] in = "sinks" ->
            CASE Innermost(doc) = Name("document-info") ->
                   Tags({"author", "id", "src-url", "version"})
              [] Innermost(doc) = Name("author") -> Tags({"home-page", "email", "id"})
              [] OTHER -> {}
      [] in = "stanza" ->
            IF Innermost(doc) = Name("stanza")
            THEN Tags({"title", "subtitle", "v"}) ELSE {}
      [] in = "poem" ->
            CASE Innermost(doc) = Name("poem") -> Tags({"stanza"})
              [] Innermost(doc) = Name("stanza") -> Tags({"v"})
              [] OTHER -> {}

EndTokens(in, doc) ==
    (IF doc = <<>> THEN {} ELSE {EndElement(doc[Len(doc)].Name)})
    \cup (IF in \in {"section", "inline", "attrs"} THEN {EndElement(BadClose)} ELSE {})
    \cup (IF in = "inline" /\ doc # <<>>
          THEN {EndElement(QName(xlink, doc[Len(doc)].Name.Local))} ELSE {})

CharDataTokens(in, doc) ==
    CASE in = "inline" -> {CharDataToken("a"), CharDataToken("b"), CharDataToken("c")}
      [] in = "book" -> {CharDataToken("QUI="), CharDataToken("QUJD"), CharDataToken("Q!")}
      [] in = "info" -> {CharDataToken("1.5"), CharDataToken("1x")}
      [] in = "grid" -> {}
      [] in = "stanza" -> IF Innermost(doc) = Name("v") THEN {CharDataToken("a")} ELSE {}
      [] in = "sinks" ->
            IF Innermost(doc).Local \in {"id", "src-url", "version", "home-page", "email"}
            THEN {CharDataToken("1.5"), CharDataToken("x")} ELSE {}
      [] in = "poem" -> IF Innermost(doc) = Name("v") THEN {CharDataToken("a")} ELSE {}
      [] in = "table" ->
            IF /\ Innermost(doc) \in {Name("table"), Name("tr")}
               /\ log[Len(log)].tok.type # "CharData"   \* adjacent text is one run
            THEN {CharDataToken("a")} ELSE {}
      [] OTHER -> {CharDataToken("a")}

-----------------------------------------------------------------------------
(* History of a run.  docStack follows the document: one entry per element *)
(* that is open, with the node the parser selected for it (NIL when its    *)
(* open tag was rejected).  log has one entry per ParseToken call.         *)

Recognises(h, n, token) == tagCallback(h, n, token).err = nilErr

DocParent(doc) == IF doc = <<>> THEN NIL ELSE doc[Len(doc)].node

Record(token, r, at) ==
    [tok |-> token, at |-> at, err |-> r.err,
     cur |-> last,                                    \* p.last when the call began
     node |-> IF token.type = "StartElement" /\ r.last # last THEN r.last ELSE NIL,
     depth |-> Len(docStack),
     parent |-> DocParent(docStack),                  \* node of the enclosing element
     afterUnknown |-> docStack # <<>> /\ docStack[Len(docStack)].unknown,
     inRejected |-> \E i \in 1..Len(docStack) : docStack[i].node = NIL,
     closes |-> IF token.type = "EndElement" /\ docStack # <<>>
                   /\ docStack[Len(docStack)].Name = token.Name
                THEN docStack[Len(docStack)].at ELSE 0,
     changed |-> r.nodes # nodes \/ r.stack # stack \/ r.last # last]

DocAfter(token, r, at) ==
    LET n == Len(docStack)
        unknownChild == n > 0 /\ docStack[n].node # NIL
                        /\ ~Recognises(nodes, docStack[n].node, token)
        marked == IF unknownChild THEN [docStack EXCEPT ![n].unknown = TRUE] ELSE docStack
    IN  CASE token.type = "StartElement" ->
               Append(marked, [Name |-> token.Name, at |-> at, unknown |-> FALSE,
                               node |-> IF r.last # last THEN r.last ELSE NIL])
          [] token.type = "EndElement" ->
               IF n > 0 /\ docStack[n].Name = token.Name
               THEN SubSeq(docStack, 1, n - 1) ELSE docStack
          [] OTHER -> docStack

(* The state a call p.ParseToken(token) with result r leaves, and its     *)
(* bookkeeping.                                                            *)
Store(token, r, at) ==
    /\ nodes' = r.nodes
    /\ stack' = r.stack
    /\ last' = r.last
    /\ panicked' = r.panic
    /\ log' = Append(log, Record(token, r, at))
    /\ docStack' = DocAfter(token, r, at)
    /\ wellNested' = (wellNested /\ (token.type = "EndElement" =>
                         (docStack # <<>> /\ docStack[Len(docStack)].Name = token.Name)))
    /\ input' = input
    /\ reads' = <<>>
    /\ peer' = peer

(* One call p.ParseToken(token). *)
Feed(token) ==
    Store(token, ParseToken(nodes, stack, last, token, Len(log) + 1), Len(log) + 1)

CanFeed == ~panicked /\ Len(log) < Limit(input)

-----------------------------------------------------------------------------
(* A caller that drives ParseToken itself, one token at a time. *)

InitParser(in, mode) ==
    /\ input = in
    /\ nodes = <<New(RootKind(in))>>     \* the root handed to NewParser
    /\ stack = <<>>
    /\ last = NIL
    /\ panicked = FALSE
    /\ pc = mode
    /\ parseErr = <<>>
    /\ ret = "none"
    /\ log = <<>>
    /\ docStack = <<>>
    /\ wellNested = TRUE
    /\ reads = <<>>
    /\ peer = NoPeer

FeedStartElement ==
    /\ pc = "manual" /\ CanFeed
    /\ \E token \in StartTokens(input, docStack) : Feed(token)
    /\ UNCHANGED <<pc, parseErr, ret>>

FeedEndElement ==
    /\ pc = "manual" /\ CanFeed
    /\ \E token \in EndTokens(input, docStack) : Feed(token)
    /\ UNCHANGED <<pc, parseErr, ret>>

FeedCharData ==
    /\ pc = "manual" /\ CanFeed
    /\ \E token \in CharDataTokens(input, docStack) : Feed(token)
    /\ UNCHANGED <<pc, parseErr, ret>>

Next == FeedStartElement \/ FeedEndElement \/ FeedCharData

InitSection == InitParser("section", "manual")
InitInline == InitParser("inline", "manual")
InitAttrs == InitParser("attrs", "manual")
InitBook == InitParser("book", "manual")
InitDescription == InitParser("description", "manual")
InitInfo == InitParser("info", "manual")
InitTable == InitParser("table", "manual")
InitGrid == InitParser("grid", "manual")
InitPoem == InitParser("poem", "manual")
InitLeaf == InitParser("leaf", "manual")
InitLink == InitParser("link", "manual")
InitSlots == InitParser("slots", "manual")
InitSinks == InitParser("sinks", "manual")
InitImage == InitParser("image", "manual")
InitStanza == InitParser("stanza", "manual")

SpecSection == InitSection /\ [][Next]_vars
SpecInline == InitInline /\ [][Next]_vars
SpecAttrs == InitAttrs /\ [][Next]_vars
SpecBook == InitBook /\ [][Next]_vars
SpecDescription == InitDescription /\ [][Next]_vars
SpecContent == (InitSection \/ InitInline) /\ [][Next]_vars
SpecInfo == InitInfo /\ [][Next]_vars
SpecNumeric == (InitAttrs \/ InitInfo) /\ [][Next]_vars
SpecShape == (InitSection \/ InitInline \/ InitLeaf) /\ [][Next]_vars
SpecSlots == InitSlots /\ [][Next]_vars
SpecLink == InitLink /\ [][Next]_vars
SpecTable == (InitTable \/ InitGrid) /\ [][Next]_vars
SpecLeaf == InitLeaf /\ [][Next]_vars
SpecStanza == InitStanza /\ [][Next]_vars
SpecChain == (InitSection \/ InitInfo) /\ [][Next]_vars
SpecImage == InitImage /\ [][Next]_vars
SpecSinks == InitSinks /\ [][Next]_vars
SpecText ==
    (InitSection \/ InitInline \/ InitTable \/ InitAttrs \/ InitBook) /\ [][Next]_vars

-----------------------------------------------------------------------------
(* The token source reads on: xml.Decoder.Token hands out text runs that   *)
(* point into its own buffer and are valid until the next call only.  The  *)
(* bytes it reads next take the place of the run a slice of the buffer     *)
(* still points at; BufferContents are bytes of the document that may      *)
(* follow.                                                                 *)
BufferContents == {"QUI=", "QUJD", "</st", "Q!", "</"}

SourceReuse ==
    /\ pc = "manual" /\ ~panicked
    /\ \E n \in 1..Len(nodes), d \in BufferContents :
          /\ "shared" \in DOMAIN nodes[n] /\ nodes[n].shared
          /\ Len(d) = Len(nodes[n].Value) /\ d # nodes[n].Value
          /\ nodes' = [nodes EXCEPT ![n].Value = d]
    /\ UNCHANGED <<stack, last, panicked, pc, parseErr, ret, log, docStack, wellNested,
                   input, reads, peer>>

NextSource == Next \/ SourceReuse

SpecSource == InitBook /\ [][NextSource]_vars

-----------------------------------------------------------------------------
(* Parser.Parse(d, start): ParseToken(start), then one d.Token() and one   *)
(* ParseToken per iteration until d.Token() fails.  The error ParseToken   *)
(* returns is assigned to err and never read.                              *)

(* A variant of the return that reports no error at all. *)
ParseReturn_silent(errs) == nilErr

ParseReturn(errs) == IF errs # <<>> THEN "error while parsing" ELSE nilErr

ParseCall ==
    /\ pc = "call" /\ CanFeed
    /\ \E start \in StartTokens(input, docStack) : Feed(start)
    /\ pc' = "loop"
    /\ UNCHANGED <<parseErr, ret>>

ParseReadStartElement ==
    /\ pc = "loop" /\ CanFeed
    /\ \E token \in StartTokens(input, docStack) : Feed(token)
    /\ UNCHANGED <<pc, parseErr, ret>>

ParseReadEndElement ==
    /\ pc = "loop" /\ CanFeed
    /\ \E token \in EndTokens(input, docStack) : Feed(token)
    /\ UNCHANGED <<pc, parseErr, ret>>

ParseReadCharData ==
    /\ pc = "loop" /\ CanFeed
    /\ \E token \in CharDataTokens(input, docStack) : Feed(token)
    /\ UNCHANGED <<pc, parseErr, ret>>

(* d.Token() returns io.EOF: break, then return *)
ParseReadEOF ==
    /\ pc = "loop" /\ ~panicked
    /\ pc' = "done"
    /\ ret' = ParseReturn(parseErr)
    /\ UNCHANGED <<nodes, stack, last, panicked, parseErr, log, docStack, wellNested, input,
                 reads, peer>>

(* d.Token() returns another error: parseErr = append(parseErr, err); break *)
ParseReadFail ==
    /\ pc = "loop" /\ ~panicked
    /\ pc' = "done"
    /\ parseErr' = Append(parseErr, "read error")
    /\ ret' = ParseReturn(parseErr')
    /\ UNCHANGED <<nodes, stack, last, panicked, log, docStack, wellNested, input, reads, peer>>

NextParse ==
    \/ ParseCall
    \/ ParseReadStartElement
    \/ ParseReadEndElement
    \/ ParseReadCharData
    \/ ParseReadEOF
    \/ ParseReadFail

InitParse == InitParser("section", "call")
SpecParse == InitParse /\ [][NextParse]_vars

(* Parse runs on: the first ParseToken call is made, and the source does   *)
(* not deliver tokens for ever, it reports io.EOF or another error at some *)
(* read.                                                                   *)
SpecParseEnds ==
    SpecParse /\ WF_vars(ParseCall) /\ WF_vars(ParseReadEOF \/ ParseReadFail)

-----------------------------------------------------------------------------
(* The read interface (Contenter) and the shape of the tree. *)

(* GetContent: contentBase returns Content, Table its rows, Stanza its     *)
(* lines, emptyContent nil.                                                *)
GetContent(h, n) ==
    CASE h[n].kind \in ContentKinds -> h[n].Content
      [] h[n].kind = "Table" -> [i \in 1..Len(h[n].TR) |-> Ptr(h[n].TR[i])]
      [] h[n].kind = "Stanza" -> [i \in 1..Len(h[n].V) |-> Ptr(h[n].V[i])]
      [] OTHER -> <<>>

(* GetText of a Content entry: the bytes of a CharData, nil for an element *)
GetText(entry) == IF entry.ref = NIL THEN entry.data ELSE ""

(* GetXMLName and GetContent of a Content entry: the empty name and nil    *)
(* for a CharData, the node's own for an element.                          *)
EntryName(h, entry) == IF entry.ref = NIL THEN Name("") ELSE GetXMLName(h, entry.ref)
EntryContent(h, entry) == IF entry.ref = NIL THEN <<>> ELSE GetContent(h, entry.ref)

PointerFields ==
    {"Title", "Image", "Annotation", "Subtitle", "Description", "Body", "NotesBody",
     "TitleInfo", "SrcTitleInfo", "DocumentInfo", "PublishInfo"}
ListFields ==
    {"Epigraphs", "Sections", "TextAuthor", "TR", "V", "Stylesheet", "Binary",
     "CustomInfo", "Output"}

(* The nodes held in the fixed slots of node n, and in its Content list. *)
SlotChildren(h, n) ==
    IF h[n].kind \in {"Image", "InlineImage"} THEN {}
    ELSE ({h[n][f] : f \in DOMAIN h[n] \cap PointerFields} \ {NIL})
         \cup UNION {{h[n][f][i] : i \in 1..Len(h[n][f])} : f \in DOMAIN h[n] \cap ListFields}
ContentChildren(h, n) ==
    IF "Content" \in DOMAIN h[n]
    THEN {h[n].Content[i].ref : i \in 1..Len(h[n].Content)} \ {NIL}
    ELSE {}
Children(h, n) == SlotChildren(h, n) \cup ContentChildren(h, n)

(* The structural element types: fixed slots and lists, no text of their own. *)
StructuralKinds ==
    {"Section", "Title", "Cite", "Poem", "Stanza", "Epigraph", "Annotation", "Table",
     "TR", "Body", "NotesBody", "FictionBook", "Description", "TitleInfo"}

IsStart(e) == e.tok.type = "StartElement"
IsEnd(e) == e.tok.type = "EndElement"
IsText(e) == e.tok.type = "CharData"

-----------------------------------------------------------------------------
(* Reading the tree between two tokens. *)

(* Node n is sealed: ParseToken has popped it at the close tag of the      *)
(* element it was created for, and it is not the current node again.       *)
Sealed(n) ==
    /\ n # last /\ \A i \in 1..Len(stack) : stack[i] # n
    /\ \E k \in 1..Len(log) :
          /\ IsEnd(log[k]) /\ log[k].err = nilErr /\ log[k].cur = n
          /\ log[k].closes # 0 /\ log[log[k].closes].node = n

(* A variant of the Contenter methods whose GetContent hands out the rows  *)
(* of a Table or the lines of a Stanza and empties the list.               *)
Call_draining(op, h, n) ==
    CASE op = "GetXMLName" -> [heap |-> h, value |-> GetXMLName(h, n)]
      [] op = "GetText" -> [heap |-> h, value |-> GetText(Ptr(n))]
      [] op = "GetContent" ->
            [heap |-> IF h[n].kind = "Table" THEN [h EXCEPT ![n].TR = <<>>]
                      ELSE IF h[n].kind = "Stanza" THEN [h EXCEPT ![n].V = <<>>]
                      ELSE h,
             value |-> GetContent(h, n)]

(* A Contenter method called on node n: the tree it leaves and the value   *)
(* it returns.  Every implementation returns a field of the node, nil, or  *)
(* a slice it has just built from the rows or lines; none writes.          *)
Call(op, h, n) ==
    CASE op = "GetXMLName" -> [heap |-> h, value |-> GetXMLName(h, n)]
      [] op = "GetText" -> [heap |-> h, value |-> GetText(Ptr(n))]
      [] op = "GetContent" -> [heap |-> h, value |-> GetContent(h, n)]

Read(op, n, r) ==
    /\ pc = "manual" /\ ~panicked /\ Len(reads) < MaxReads
    /\ Sealed(n)
    /\ nodes' = r.heap
    /\ reads' = Append(reads, [op |-> op, node |-> n, result |-> r.value])
    /\ UNCHANGED <<stack, last, panicked, pc, parseErr, ret, log, docStack, wellNested,
                   input, peer>>

ReadXMLName == \E n \in 1..Len(nodes) : Read("GetXMLName", n, Call("GetXMLName", nodes, n))

ReadText == \E n \in 1..Len(nodes) : Read("GetText", n, Call("GetText", nodes, n))

ReadContent == \E n \in 1..Len(nodes) : Read("GetContent", n, Call("GetContent", nodes, n))

NextRead ==
    \/ Len(log) < MaxReadTokens /\ FeedStartElement
    \/ Len(log) < MaxReadTokens /\ FeedEndElement
    \/ Len(log) < MaxReadTokens /\ FeedCharData
    \/ ReadXMLName
    \/ ReadText
    \/ ReadContent

SpecRead == (InitTable \/ InitPoem) /\ [][NextRead]_vars

-----------------------------------------------------------------------------
(* Two Parsers in one process.  The first is the Parser of the variables   *)
(* stack and last, with root first; the second is peer, made by            *)
(* NewParser(&P{}) with its own root.  Both allocate from the same heap.   *)

(* A variant of the second Parser's ParseToken that takes the first        *)
(* Parser's root for its own.                                              *)
PeerToken_shared(h, q, token, at) == ParseToken(h, q.stack, q.last, token, at)

(* q.ParseToken(token) for the Parser q: p.last = p.first on the first     *)
(* open tag, with q's own first.                                           *)
PeerToken(h, q, token, at) ==
    IF token.type = "StartElement" /\ q.last = NIL
    THEN ParseTagResult(h, q.stack, q.last, token, at, Result(h, q.first, nilErr))
    ELSE ParseToken(h, q.stack, q.last, token, at)

(* The tokens the second Parser's source may deliver: its document is well *)
(* nested, p at the top, strong and text inside.                           *)
PeerTokens(h, q) ==
    IF q.last = NIL THEN Tags({"p"})
    ELSE Tags({"strong"}) \cup {CharDataToken("a"), EndElement(GetXMLName(h, q.last))}

PeerStore(token, r) ==
    /\ nodes' = r.nodes
    /\ peer' = [peer EXCEPT !.stack = r.stack, !.last = r.last,
                            !.toks = Append(@, token),
                            !.own = @ \o [i \in 1..(Len(r.nodes) - Len(nodes)) |->
                                             Len(nodes) + i]]
    /\ UNCHANGED <<stack, last, panicked, pc, parseErr, ret, log, docStack, wellNested,
                   input, reads>>

PeerFeed ==
    /\ pc = "manual" /\ peer # NoPeer /\ Len(peer.toks) < MaxPairTokens
    /\ \E token \in PeerTokens(nodes, peer) :
          PeerStore(token, PeerToken(nodes, peer, token, Len(peer.toks) + 1))

InitPair ==
    /\ input = "pair"
    /\ nodes = <<New("P"), New("P")>>
    /\ peer = [first |-> 2, stack |-> <<>>, last |-> NIL, toks |-> <<>>, own |-> <<2>>]
    /\ stack = <<>> /\ last = NIL /\ panicked = FALSE
    /\ pc = "manual" /\ parseErr = <<>> /\ ret = "none"
    /\ log = <<>> /\ docStack = <<>> /\ wellNested = TRUE /\ reads = <<>>

NextPair == Next \/ PeerFeed

SpecPair == InitPair /\ [][NextPair]_vars

-----------------------------------------------------------------------------
(* C1. An unknown child tag inside a known element is reported as an error *)
(* and does not disturb the rest of its parent: every recognised element   *)
(* and every text run that follows it inside the same parent is dispatched *)
(* to the parent, and the element is attached to the parent (its Content   *)
(* list or a fixed slot).                                                  *)
C1_UnknownChildIsRecoverable ==
    wellNested =>
        \A k \in 1..Len(log) :
            LET e == log[k]
            IN  (e.parent # NIL /\ nodes[e.parent].kind \in StructuralKinds) =>
                  /\ (IsStart(e) /\ ~Recognises(nodes, e.parent, e.tok))
                        => e.err = "unexpected tag"
                  /\ (e.afterUnknown /\ IsStart(e) /\ Recognises(nodes, e.parent, e.tok))
                        => (e.node # NIL /\ e.node \in Children(nodes, e.parent))
                  /\ (e.afterUnknown /\ IsText(e)) => e.cur = e.parent

-----------------------------------------------------------------------------
(* C2. When Parse has returned, every error a callback raised during the   *)
(* call is part of the aggregate it built, and Parse returned nil only if  *)
(* no callback raised an error and the source ended with io.EOF.           *)
C2_ParseAggregatesEveryError ==
    pc = "done" =>
        /\ \A k \in 1..Len(log) :
              log[k].err # nilErr => \E i \in 1..Len(parseErr) : parseErr[i] = log[k].err
        /\ ret = nilErr =>
              (parseErr = <<>> /\ \A k \in 1..Len(log) : log[k].err = nilErr)

-----------------------------------------------------------------------------
(* C3. A close tag whose name differs from the current node's identity is  *)
(* fatal for the call: no token is dispatched after it, and the call       *)
(* reports the error.                                                      *)
C3_MismatchedCloseStopsParse ==
    /\ \A k \in 1..Len(log) : log[k].err = "unexpected close tag" => k = Len(log)
    /\ (pc = "done" /\ \E k \in 1..Len(log) : log[k].err = "unexpected close tag")
          => ret # nilErr

-----------------------------------------------------------------------------
(* C7. The subtree of a rejected open tag is skipped: no token between the *)
(* rejected open tag and its matching close tag, that close tag included,  *)
(* changes a node of the tree or the parser's stack and current node.      *)
C7_RejectedSubtreeIsSkipped ==
    wellNested => \A k \in 1..Len(log) : log[k].inRejected => ~log[k].changed

-----------------------------------------------------------------------------
(* The depth-first walk of a reader that follows GetContent from node n:   *)
(* one record per entry met, a text run or an element, in visiting order.  *)
(* pos of an element entry is the position of its open tag.                *)
RECURSIVE WalkEntries(_, _)
WalkEntries(h, entries) ==
    IF entries = <<>> THEN <<>>
    ELSE LET e == Head(entries)
         IN  (IF e.ref = NIL
              THEN <<[pos |-> e.pos, ref |-> NIL, text |-> GetText(e)]>>
              ELSE <<[pos |-> h[e.ref].pos, ref |-> e.ref, text |-> ""]>>
                   \o WalkEntries(h, GetContent(h, e.ref)))
             \o WalkEntries(h, Tail(entries))

Walk(h, n) == WalkEntries(h, GetContent(h, n))

NoErrors == \A k \in 1..Len(log) : log[k].err = nilErr
Visited(w, k) == \E i \in 1..Len(w) : w[i].pos = k
InWalk(w, n) == n = first \/ \E i \in 1..Len(w) : w[i].ref = n
InOrder(w) == \A i, j \in 1..Len(w) : i < j => w[i].pos < w[j].pos

(* C4 as stated. For tokens of the recognised vocabulary, the walk from    *)
(* the root meets the text runs and elements in document order, and every  *)
(* element and every text run of the document below the root is met.       *)
C4_WalkVisitsEverything ==
    (NoErrors /\ wellNested) =>
        LET w == Walk(nodes, first)
        IN  /\ InOrder(w)
            /\ \A k \in 2..Len(log) : (IsStart(log[k]) \/ IsText(log[k])) => Visited(w, k)

(* C4. The walk from the root that follows GetContent meets its entries in *)
(* strict document order, whatever the tokens were.  For tokens of the     *)
(* recognised vocabulary it meets exactly: the text runs dispatched to a   *)
(* mixed node that is itself met (or is the root), and the elements that   *)
(* are entries of GetContent of a node that is met (or is the root).       *)
(* Elements kept in a fixed slot outside GetContent (Section.Title, child  *)
(* sections, ...), everything below them, and text dispatched to a node    *)
(* that keeps no text are not met.                                         *)
C4_WalkIsDocumentOrder ==
    LET w == Walk(nodes, first)
    IN  /\ InOrder(w)
        /\ (NoErrors /\ wellNested) =>
              \A k \in 2..Len(log) :
                  LET e == log[k]
                  IN  Visited(w, k) <=>
                        /\ e.cur # NIL
                        /\ InWalk(w, e.cur)
                        /\ \/ IsText(e) /\ nodes[e.cur].kind \in MixedKinds
                           \/ /\ IsStart(e)
                              /\ \E i \in 1..Len(GetContent(nodes, e.cur)) :
                                    GetContent(nodes, e.cur)[i].ref = e.node

(* <section><title></title><p>a : the title is in its slot and not met,   *)
(* the paragraph and its text are met in that order.                       *)
C4_Reached ==
    /\ NoErrors /\ wellNested
    /\ nodes[first].kind = "Section" /\ nodes[first].Title # NIL
    /\ LET w == Walk(nodes, first)
       IN  /\ Len(w) = 2
           /\ w[1].ref # NIL /\ nodes[w[1].ref].kind = "P"
           /\ w[2].ref = NIL /\ w[2].text = "a"
           /\ ~Visited(w, nodes[nodes[first].Title].pos)

-----------------------------------------------------------------------------
(* The events dispatched to node n, in document order: the text runs       *)
(* handed to its charDataCallback and the open tags its tagCallback        *)
(* accepted.                                                               *)
RECURSIVE Dispatched(_, _)
Dispatched(n, k) ==
    IF k = 0 THEN <<>>
    ELSE LET e == log[k]
         IN  Dispatched(n, k - 1) \o
             (IF e.cur # n THEN <<>>
              ELSE IF IsText(e) THEN <<Chars(e.tok.Data, k)>>
              ELSE IF IsStart(e) /\ e.node # NIL THEN <<Ptr(e.node)>>
              ELSE <<>>)

(* The text runs and accepted child elements that occur directly inside    *)
(* the element of node n in the document, in document order.               *)
RECURSIVE Occurring(_, _)
Occurring(n, k) ==
    IF k = 0 THEN <<>>
    ELSE LET e == log[k]
         IN  Occurring(n, k - 1) \o
             (IF e.parent # n THEN <<>>
              ELSE IF IsText(e) THEN <<Chars(e.tok.Data, k)>>
              ELSE IF IsStart(e) /\ e.node # NIL THEN <<Ptr(e.node)>>
              ELSE <<>>)

(* After the events a, <strong>, b, </strong>, c at node n, its Content    *)
(* holds the three entries side by side.                                   *)
StrongSequence(n) ==
    \E k \in 1..Len(log) :
        /\ k + 4 <= Len(log)
        /\ log[k].cur = n /\ IsText(log[k])
        /\ log[k + 1].cur = n /\ IsStart(log[k + 1]) /\ log[k + 1].tok.Name = Name("strong")
        /\ log[k + 1].node # NIL
        /\ log[k + 2].cur = log[k + 1].node /\ IsText(log[k + 2])
        /\ log[k + 3].cur = log[k + 1].node /\ IsEnd(log[k + 3]) /\ log[k + 3].err = nilErr
        /\ log[k + 4].cur = n /\ IsText(log[k + 4])
        /\ \E i \in 1..Len(nodes[n].Content) :
              /\ i + 2 <= Len(nodes[n].Content)
              /\ LET c == nodes[n].Content
                     s == c[i + 1].ref
                 IN  /\ c[i].ref = NIL /\ GetText(c[i]) = log[k].tok.Data
                     /\ s = log[k + 1].node
                     /\ nodes[s].kind \in MixedKinds /\ GetXMLName(nodes, s) = Name("strong")
                     /\ Len(nodes[s].Content) = 1
                     /\ nodes[s].Content[1].ref = NIL
                     /\ GetText(nodes[s].Content[1]) = log[k + 2].tok.Data
                     /\ c[i + 2].ref = NIL /\ GetText(c[i + 2]) = log[k + 4].tok.Data

(* The events a, <strong>, b, </strong>, c arrive in this order at node n. *)
StrongEvents(n) ==
    \E k \in 1..Len(log) :
        /\ k + 4 <= Len(log)
        /\ log[k].cur = n /\ IsText(log[k])
        /\ log[k + 1].cur = n /\ IsStart(log[k + 1]) /\ log[k + 1].tok.Name = Name("strong")
        /\ log[k + 1].node # NIL
        /\ log[k + 2].cur = log[k + 1].node /\ IsText(log[k + 2])
        /\ log[k + 3].cur = log[k + 1].node /\ IsEnd(log[k + 3]) /\ log[k + 3].err = nilErr
        /\ log[k + 4].cur = n /\ IsText(log[k + 4])

(* C5. The Content list of every mixed node (P, StyleType, Link, ...) is   *)
(* the document-order interleaving of the text runs and the accepted       *)
(* inline children dispatched to it, and, when every open tag of the       *)
(* document is recognised where it occurs, of the text runs and child      *)
(* elements that occur directly inside its element.  In particular the     *)
(* events a, <strong>, b, </strong>, c leave three consecutive entries:    *)
(* the text a, a strong element whose content is exactly the text b, and   *)
(* the text c.                                                             *)
C5_MixedContentInterleaves ==
    \A n \in 1..Len(nodes) :
        nodes[n].kind \in MixedKinds =>
            /\ nodes[n].Content = Dispatched(n, Len(log))
            /\ (NoErrors /\ wellNested) => nodes[n].Content = Occurring(n, Len(log))
            /\ StrongEvents(n) => StrongSequence(n)

(* <p>a<strong>b</strong>c with the three texts distinct *)
C5_Reached ==
    /\ nodes[first].kind = "P"
    /\ StrongEvents(first)
    /\ Len(nodes[first].Content) = 3
    /\ GetText(nodes[first].Content[1]) = "a"
    /\ GetText(nodes[nodes[first].Content[2].ref].Content[1]) = "b"
    /\ GetText(nodes[first].Content[3]) = "c"

-----------------------------------------------------------------------------
(* C6. Right after an open tag was accepted, every attribute of the tag    *)
(* that its node accepts, and that no later attribute of the same name     *)
(* overrides, is recorded in the node, whatever attributes precede it in   *)
(* the list: handing it to attrCallback once more would change nothing.    *)
C6_EveryAttributeIsForwarded ==
    (log # <<>> /\ IsStart(log[Len(log)]) /\ log[Len(log)].node # NIL) =>
        LET n == log[Len(log)].node
            attrs == log[Len(log)].tok.Attr
        IN  \A i \in 1..Len(attrs) :
                LET r == attrCallback(nodes, n, attrs[i])
                IN  (/\ r.err = nilErr
                     /\ \A j \in (i + 1)..Len(attrs) : attrs[j].Name # attrs[i].Name)
                    => r.heap = nodes

-----------------------------------------------------------------------------
(* The last token fed is the close tag of a description element that was   *)
(* opened directly inside the root and accepted: the point where a caller  *)
(* that only wants the description stops.                                  *)
DescriptionClosed ==
    /\ log # <<>>
    /\ nodes[first].kind = "FictionBook"
    /\ log[Len(log)].closes # 0
    /\ LET open == log[log[Len(log)].closes]
       IN  /\ open.tok.Name = Name("description")
           /\ open.cur = first
           /\ open.node # NIL

(* C8. When the caller stops right after the close tag of description, the *)
(* root is the current node again, the ancestor stack is empty, the        *)
(* Description slot of the root is the node opened for the element, and    *)
(* every child element the Description recognises that occurred between    *)
(* the open and the close tag is held by that node.                        *)
C8_DescriptionCompleteAtClose ==
    DescriptionClosed =>
        LET c == log[Len(log)].closes
            D == log[c].node
        IN  /\ last = first
            /\ stack = <<>>
            /\ nodes[first].Description = D
            /\ \A k \in (c + 1)..(Len(log) - 1) :
                  (IsStart(log[k]) /\ log[k].parent = D /\ Recognises(nodes, D, log[k].tok))
                      => (log[k].node # NIL /\ log[k].node \in Children(nodes, D))

-----------------------------------------------------------------------------
(* The notes marker: an attribute name="notes". *)
HasNotesMarker(attrs) ==
    \E i \in 1..Len(attrs) : attrs[i].Name = Name("name") /\ attrs[i].Value = "notes"

(* Entry e of the log is a body open tag dispatched to the root. *)
IsTopLevelBody(e) ==
    IsStart(e) /\ e.cur = first /\ e.tok.Name = Name("body")

(* C9. Right after a body open tag was dispatched to the FictionBook root: *)
(* without attributes its node is FictionBook.Body; with the notes marker  *)
(* anywhere in its attribute list its node is FictionBook.NotesBody.       *)
C9_BodyRouting ==
    (log # <<>> /\ nodes[first].kind = "FictionBook" /\ IsTopLevelBody(log[Len(log)])) =>
        LET e == log[Len(log)]
        IN  /\ e.tok.Attr = <<>> => (e.node # NIL /\ nodes[first].Body = e.node)
            /\ HasNotesMarker(e.tok.Attr)
                  => (e.node # NIL /\ nodes[first].NotesBody = e.node)

-----------------------------------------------------------------------------
(* C10. Among the open tags dispatched to the FictionBook root, one the    *)
(* root does not recognise, and a body without attributes that arrives     *)
(* after such a body was already accepted, return an error; a recognised   *)
(* one is accepted whatever errors came before it.                         *)
C10_TopLevelErrorsAreRecoverable ==
    nodes[first].kind = "FictionBook" =>
        \A k \in 2..Len(log) :
            LET e == log[k]
            IN  (IsStart(e) /\ e.cur = first) =>
                  /\ ~Recognises(nodes, first, e.tok) => e.err # nilErr
                  /\ (/\ IsTopLevelBody(e) /\ e.tok.Attr = <<>>
                      /\ \E j \in 2..(k - 1) :
                            IsTopLevelBody(log[j]) /\ log[j].tok.Attr = <<>>
                            /\ log[j].node # NIL)
                     => e.err # nilErr
                  /\ Recognises(nodes, first, e.tok) => e.node # NIL

-----------------------------------------------------------------------------
(* The text content of the element opened by token c, as far as the log    *)
(* goes up to k: the concatenation of the text runs dispatched to its node.*)
RECURSIVE TextContent(_, _)
TextContent(c, k) ==
    IF k <= c THEN ""
    ELSE TextContent(c, k - 1)
         \o (IF IsText(log[k]) /\ log[k].cur = log[c].node THEN log[k].tok.Data ELSE "")

(* The last token fed is the close tag of an accepted element of type kind.*)
JustClosed(kind) ==
    /\ log # <<>>
    /\ log[Len(log)].closes # 0
    /\ log[Len(log)].err = nilErr
    /\ log[log[Len(log)].closes].node # NIL
    /\ log[Len(log)].cur = log[log[Len(log)].closes].node
    /\ nodes[log[log[Len(log)].closes].node].kind = kind

(* C11. Right after the close tag of a binary element whose complete text  *)
(* content is valid base64, Binary.Value is the decoding of that content:  *)
(* the decoded bytes and nothing else.                                     *)
C11_BinaryDecodesWholeContent ==
    JustClosed("Binary") =>
        LET c == log[Len(log)].closes
            text == TextContent(c, Len(log))
        IN  Decode(text).err = nilErr => nodes[log[c].node].Value = Decode(text).bytes

-----------------------------------------------------------------------------
(* C12. Right after charDataCallback of a binary element returned a decode *)
(* error, Binary.Value is empty; and a binary open tag dispatched to the   *)
(* root is accepted whatever came before.                                  *)
C12_InvalidBase64EmitsNothing ==
    /\ (/\ log # <<>> /\ IsText(log[Len(log)]) /\ log[Len(log)].cur # NIL
        /\ nodes[log[Len(log)].cur].kind = "Binary"
        /\ log[Len(log)].err # nilErr)
       => nodes[log[Len(log)].cur].Value = <<>>
    /\ \A k \in 2..Len(log) :
          (IsStart(log[k]) /\ log[k].cur = first /\ nodes[first].kind = "FictionBook"
           /\ log[k].tok.Name = Name("binary"))
          => (log[k].err = nilErr /\ log[k].node # NIL)

-----------------------------------------------------------------------------
(* The step is one call of ParseToken: the entry it adds to the log. *)
Fed == Len(log') = Len(log) + 1
NewEntry == log'[Len(log')]

(* Attribute i of the open tag of entry e reached attrCallback: no         *)
(* attribute before it was rejected.                                       *)
Forwarded(h, e, i) ==
    \A j \in 1..(i - 1) : attrCallback(h, e.node, e.tok.Attr[j]).err = nilErr

(* Trees h and g differ at most in field F of node n. *)
SameBut(h, g, n, F) == [h EXCEPT ![n][F] = 0] = [g EXCEPT ![n][F] = 0]

(* The state after the step is the one r describes, but for field F of n.  *)
StepIsBut(r, n, F) ==
    SameBut(nodes', r.nodes, n, F) /\ stack' = r.stack /\ last' = r.last /\ ~panicked'

(* The call ParseToken would be for the open tag of e cut before attribute i. *)
WithoutAttrsFrom(e, i) ==
    ParseToken(nodes, stack, last, [e.tok EXCEPT !.Attr = SubSeq(@, 1, i - 1)], e.at)

-----------------------------------------------------------------------------
(* Entry e of the log is the accepted open tag of a date element that      *)
(* carries a value attribute which is no calendar date.                    *)
IsDateWithBadValue(e) ==
    /\ IsStart(e) /\ e.node # NIL /\ nodes[e.node].kind = "Date"
    /\ \E i \in 1..Len(e.tok.Attr) :
          /\ e.tok.Attr[i].Name = Name("value")
          /\ time_Parse(dateFormat, e.tok.Attr[i].Value).err # nilErr

(* C14. For a date element whose value attribute is no valid calendar      *)
(* date: the open tag returned an error, Date.Value is absent, every lang  *)
(* attribute of the tag is recorded in Date.Lang, and Date.StrValue is the *)
(* text last dispatched to the element.                                    *)
C14_BadDateKeepsTheRest ==
    \A k \in 1..Len(log) :
        IsDateWithBadValue(log[k]) =>
            LET e == log[k]
                D == nodes[e.node]
            IN  /\ e.err # nilErr
                /\ D.Value = NIL
                /\ \A i \in 1..Len(e.tok.Attr) :
                      e.tok.Attr[i].Name = Name("lang") => D.Lang = e.tok.Attr[i].Value
                /\ \A j \in (k + 1)..Len(log) :
                      (/\ IsText(log[j]) /\ log[j].cur = e.node
                       /\ \A m \in (j + 1)..Len(log) : ~(IsText(log[m]) /\ log[m].cur = e.node))
                      => D.StrValue = log[j].tok.Data

-----------------------------------------------------------------------------
(* The open tags that occur directly inside the element of node n, as      *)
(* positions of the log, in document order.                                *)
RECURSIVE ChildTags(_, _)
ChildTags(n, k) ==
    IF k = 0 THEN <<>>
    ELSE ChildTags(n, k - 1) \o
         (IF IsStart(log[k]) /\ log[k].parent = n THEN <<k>> ELSE <<>>)

(* C15. The content list of a table has one entry per row of the table, in *)
(* row order, and the content list of a row one entry per cell (td or th), *)
(* in cell order: each entry is the element node created for that open     *)
(* tag.  Text runs between rows or between cells add no entry.             *)
C15_TableRowsAndCells ==
    \A n \in 1..Len(nodes) :
        nodes[n].kind \in {"Table", "TR"} =>
            LET tags == ChildTags(n, Len(log))
                c == GetContent(nodes, n)
            IN  /\ Len(c) = Len(tags)
                /\ \A i \in 1..Len(tags) :
                      /\ c[i].ref # NIL /\ c[i].ref = log[tags[i]].node
                      /\ GetText(c[i]) = ""
                      /\ nodes[c[i].ref].kind = (IF nodes[n].kind = "Table" THEN "TR" ELSE "TD")
                      /\ GetXMLName(nodes, c[i].ref) = log[tags[i]].tok.Name

(* A table of 2 rows of 3 cells, td and th mixed, both rows closed: the    *)
(* lengths are 2 and 3.                                                    *)
C15_Reached ==
    /\ Len(log) = 17 /\ IsEnd(log[17]) /\ log[17].tok.Name = Name("tr")
    /\ nodes[first].kind = "Table"
    /\ Len(GetContent(nodes, first)) = 2
    /\ \A i \in 1..2 :
          LET row == GetContent(nodes, first)[i].ref
          IN  /\ Len(GetContent(nodes, row)) = 3
              /\ \E a, b \in 1..3 :
                    /\ GetXMLName(nodes, GetContent(nodes, row)[a].ref) = Name("td")
                    /\ GetXMLName(nodes, GetContent(nodes, row)[b].ref) = Name("th")

-----------------------------------------------------------------------------
-----------------------------------------------------------------------------
(* C17. The read contract of the entries of every content list: an entry   *)
(* with text is a text run, with the empty name and no children; an        *)
(* element entry has no text; text runs, empty lines and images have no    *)
(* children; an element entry carries the name of the open tag that        *)
(* created it, which is not empty.                                         *)
C17_UniformReadContract ==
    \A n \in 1..Len(nodes) :
        \A i \in 1..Len(GetContent(nodes, n)) :
            LET e == GetContent(nodes, n)[i]
            IN  /\ GetText(e) # "" =>
                      (e.ref = NIL /\ EntryName(nodes, e) = Name("")
                       /\ EntryContent(nodes, e) = <<>>)
                /\ e.ref # NIL => GetText(e) = ""
                /\ (e.ref = NIL \/ nodes[e.ref].kind \in {"EmptyLine", "Image", "InlineImage"})
                      => EntryContent(nodes, e) = <<>>
                /\ e.ref # NIL =>
                      /\ EntryName(nodes, e) # Name("")
                      /\ \E k \in 1..Len(log) :
                            /\ IsStart(log[k]) /\ log[k].node = e.ref
                            /\ log[k].tok.Name = EntryName(nodes, e)

(* A section whose paragraph holds a text run and an inline image, in that *)
(* order.                                                                  *)
C17_Reached ==
    /\ nodes[first].kind = "Section" /\ Len(GetContent(nodes, first)) = 1
    /\ LET par == GetContent(nodes, first)[1]
           c == EntryContent(nodes, par)
       IN  /\ par.ref # NIL /\ EntryName(nodes, par) = Name("p")
           /\ Len(c) = 2
           /\ GetText(c[1]) = "a" /\ EntryName(nodes, c[1]) = Name("")
           /\ c[2].ref # NIL /\ nodes[c[2].ref].kind = "InlineImage"
           /\ EntryName(nodes, c[2]) = Name("image") /\ GetText(c[2]) = ""

-----------------------------------------------------------------------------
(* The tags a structural node keeps in a fixed slot. *)
SlotTags == {"title", "epigraph", "annotation", "text-author", "section"}

(* The free-content children of node n among the first k tokens, in        *)
(* document order: the accepted open tags dispatched to n that are no slot *)
(* tag and no leading image (an image that arrives before any free         *)
(* content).                                                               *)
FreeStep(prev, e, n) ==
    IF /\ e.cur = n /\ IsStart(e) /\ e.node # NIL
       /\ e.tok.Name.Local \notin SlotTags
       /\ ~(e.tok.Name.Local = "image" /\ prev = <<>>)
    THEN Append(prev, Ptr(e.node)) ELSE prev

RECURSIVE FreeContent(_, _)
FreeContent(n, k) == IF k = 0 THEN <<>> ELSE FreeStep(FreeContent(n, k - 1), log[k], n)

(* C18. GetContent of a structural node with fixed slots is the list of    *)
(* its free-content children in arrival order, whatever its slots hold; a  *)
(* child kept in a slot is no entry of the list.                           *)
C18_ContentIsTheFreeList ==
    \A n \in 1..Len(nodes) :
        nodes[n].kind \in {"Section", "Cite", "Poem", "Epigraph", "Annotation", "Title"} =>
            /\ GetContent(nodes, n) = FreeContent(n, Len(log))
            /\ \A c \in SlotChildren(nodes, n) :
                  \A i \in 1..Len(GetContent(nodes, n)) : GetContent(nodes, n)[i].ref # c

(* A section whose title arrived after a paragraph: the title is in its    *)
(* slot and the list holds the paragraph alone.                            *)
C18_Reached ==
    /\ nodes[first].kind = "Section" /\ nodes[first].Title # NIL
    /\ Len(GetContent(nodes, first)) = 1
    /\ LET par == GetContent(nodes, first)[1].ref
       IN  /\ par # NIL /\ nodes[par].kind = "P"
           /\ nodes[par].pos < nodes[nodes[first].Title].pos
    /\ log[Len(log)].tok.Name = Name("title") /\ IsStart(log[Len(log)])
    /\ log[Len(log)].cur = first

-----------------------------------------------------------------------------
(* Node n lies below node a in the tree, at most d levels down. *)
RECURSIVE Below(_, _, _)
Below(a, n, d) ==
    d > 0 /\ \E c \in Children(nodes, a) : c = n \/ Below(c, n, d - 1)

InsideLink(n) ==
    \E l \in 1..Len(nodes) :
        nodes[l].kind = "Link" /\ (n = l \/ Below(l, n, Len(nodes)))

(* C19. No Link has a Link below it, at any depth; and an open tag a that  *)
(* is dispatched to a Link, or to a node inside a Link, is rejected as an  *)
(* unexpected tag and changes nothing.                                     *)
C19_NoLinkInsideLink ==
    /\ \A l, n \in 1..Len(nodes) :
          (nodes[l].kind = "Link" /\ nodes[n].kind = "Link") => ~Below(l, n, Len(nodes))
    /\ \A k \in 1..Len(log) :
          (/\ IsStart(log[k]) /\ log[k].tok.Name.Local = "a"
           /\ log[k].cur # NIL /\ InsideLink(log[k].cur))
          => (log[k].err = "unexpected tag" /\ log[k].node = NIL /\ ~log[k].changed)

(* <p><a><strong><a>: the second a arrives at the strong inside the link.  *)
C19_Reached ==
    /\ Len(log) = 4 /\ IsStart(log[4]) /\ log[4].tok.Name = Name("a")
    /\ log[2].tok.Name = Name("a") /\ log[2].node # NIL /\ nodes[log[2].node].kind = "Link"
    /\ log[3].node # NIL /\ log[4].cur = log[3].node
    /\ nodes[log[3].node].kind = "StyleLinkType"
    /\ Below(log[2].node, log[4].cur, Len(nodes))
    /\ log[4].err = "unexpected tag"

-----------------------------------------------------------------------------
(* The fields of a Link that record attribute values. *)
LinkFields == {"Type", "XlinkType", "XlinkHref"}

Carries(e, attr) == \E i \in 1..Len(e.tok.Attr) : e.tok.Attr[i] = attr

(* Fields F and G of node n are distinct and hold the values of a and b. *)
KeptApart(n, a, b) ==
    \E F, G \in LinkFields : F # G /\ nodes[n][F] = a.Value /\ nodes[n][G] = b.Value

(* C20. After the open tag of a Link that carries a plain type and href    *)
(* and a type and href of the xlink namespace, in any order, the two type  *)
(* values are held by two distinct fields of the Link and the two href     *)
(* values are held by two distinct fields.                                 *)
C20_NamespacedAttributesStayDistinct ==
    log # <<>> =>
        LET e == log[Len(log)]
        IN  (/\ IsStart(e) /\ e.node # NIL /\ nodes[e.node].kind = "Link"
             /\ \A a \in LinkAttrChoices : Carries(e, a))
            => /\ e.err = nilErr
               /\ \A a, b \in LinkAttrChoices :
                     (a.Name.Local = b.Name.Local /\ a.Name.Space # b.Name.Space)
                         => KeptApart(e.node, a, b)

-----------------------------------------------------------------------------
(* A token as it is written in the document. *)
Markup(token) ==
    CASE token.type = "StartElement" -> "<" \o token.Name.Local \o ">"
      [] token.type = "EndElement" -> "</" \o token.Name.Local \o ">"
      [] OTHER -> token.Data

(* The document between token c and token k, both excluded. *)
RECURSIVE InnerXML(_, _)
InnerXML(c, k) == IF k <= c + 1 THEN "" ELSE InnerXML(c, k - 1) \o Markup(log[k - 1].tok)

(* C21. Right after the close tag of a stylesheet element, Stylesheet.Value *)
(* is the complete inner content of the element, text runs and nested      *)
(* markup in order; no node was created for anything inside it; and the    *)
(* FictionBook holds the stylesheets opened so far, in document order.     *)
C21_StylesheetIsVerbatim ==
    JustClosed("Stylesheet") =>
        LET c == log[Len(log)].closes
            n == log[c].node
        IN  /\ nodes[n].Value = InnerXML(c, Len(log))
            /\ \A k \in (c + 1)..(Len(log) - 1) : log[k].node = NIL
            /\ \E i \in 1..Len(nodes[first].Stylesheet) : nodes[first].Stylesheet[i] = n
            /\ \A i, j \in 1..Len(nodes[first].Stylesheet) :
                  i < j => nodes[nodes[first].Stylesheet[i]].pos
                              < nodes[nodes[first].Stylesheet[j]].pos

-----------------------------------------------------------------------------
(* What a Parser on its own makes of the tokens toks: a fresh P root, the  *)
(* tokens handed to ParseToken one after the other.                        *)
AloneStep(r, token, at) ==
    PeerToken(r.nodes, [first |-> first, stack |-> r.stack, last |-> r.last], token, at)

RECURSIVE Alone(_, _)
Alone(toks, k) ==
    IF k = 0 THEN PResult(<<New("P")>>, <<>>, NIL, nilErr)
    ELSE AloneStep(Alone(toks, k - 1), toks[k], k)

(* The nodes a Parser owns, in allocation order, and a pointer, a node and *)
(* a Parser state expressed in positions of that order.                    *)
Others(own) == SelectSeq([i \in 1..Len(nodes) |-> i],
                         LAMBDA i : \A j \in 1..Len(own) : own[j] # i)
Local(own, ptr) ==
    IF ptr = NIL THEN NIL
    ELSE IF \E i \in 1..Len(own) : own[i] = ptr
    THEN CHOOSE i \in 1..Len(own) : own[i] = ptr
    ELSE -1                                         \* a node of the other Parser
LocalNode(own, n) ==
    LET c == nodes[n].Content
    IN  [nodes[n] EXCEPT !.Content =
            [i \in 1..Len(c) |-> [c[i] EXCEPT !.ref = Local(own, c[i].ref)]]]
View(own, stk, lst) ==
    [nodes |-> [i \in 1..Len(own) |-> LocalNode(own, own[i])],
     stack |-> [i \in 1..Len(stk) |-> Local(own, stk[i])],
     last |-> Local(own, lst)]

SameAsAlone(own, stk, lst, a) ==
    View(own, stk, lst) = [nodes |-> a.nodes, stack |-> a.stack, last |-> a.last]

(* C22. Two Parsers with distinct roots, their ParseToken calls            *)
(* interleaved in any way: the stack, the current node and the tree of     *)
(* each are those it gets from its own tokens when it runs alone.          *)
C22_ParsersAreIndependent ==
    peer # NoPeer =>
        /\ SameAsAlone(Others(peer.own), stack, last,
                       Alone([k \in 1..Len(log) |-> log[k].tok], Len(log)))
        /\ SameAsAlone(peer.own, peer.stack, peer.last, Alone(peer.toks, Len(peer.toks)))

(* Both Parsers have taken three tokens and their allocations alternate.   *)
C22_Reached ==
    /\ peer # NoPeer /\ Len(log) = 3 /\ Len(peer.toks) = 3
    /\ peer.own = <<2, 4>> /\ Len(nodes) = 5
    /\ last = 5 /\ peer.last = 4

-----------------------------------------------------------------------------
(* ParseToken has accepted the close tag of node n.                        *)
Closed(n) ==
    \E k \in 1..Len(log) : IsEnd(log[k]) /\ log[k].err = nilErr /\ log[k].cur = n

(* The fields of a node: its identity, attribute fields, slots and content *)
(* list (pos is the bookkeeping of when it was selected).                  *)
Fields(h, n) == [h[n] EXCEPT !.pos = 0]

(* C23. Once ParseToken has accepted the close tag of a node, no later     *)
(* token changes the node's identity, attribute fields, slots or content   *)
(* list; the root after its own close tag included.                        *)
C23_SealedNodesAreFrozen ==
    [][\A n \in DOMAIN nodes : Closed(n) => Fields(nodes', n) = Fields(nodes, n)]_vars

-----------------------------------------------------------------------------
(* The ParseToken calls that called SetXMLName on node n: the open tags    *)
(* that made n the current node.                                           *)
Named(n) == {k \in 1..Len(log) : log[k].node = n}

(* C24. SetXMLName is called on a node exactly once over the whole run     *)
(* (on the root once an open tag has arrived), with the name of the open   *)
(* tag that selected or created the node, and before the first             *)
(* tagCallback or charDataCallback call on it (the calls made while it is  *)
(* the current node) and the attrCallback calls of the tag itself.         *)
C24_IdentityIsSetOnce ==
    \A n \in DOMAIN nodes :
        /\ Cardinality(Named(n)) <= 1
        /\ (n # first \/ \E k \in 1..Len(log) : IsStart(log[k]))
               => Cardinality(Named(n)) = 1
        /\ \A k \in Named(n) : GetXMLName(nodes, n) = log[k].tok.Name
        /\ \A j \in 1..Len(log) :
              log[j].cur = n => \E k \in Named(n) : k < j

-----------------------------------------------------------------------------
(* C25. A close tag handed to ParseToken while a node is current: when its *)
(* name, local name and namespace, is the current node's recorded name,    *)
(* the call returns no error, the top of the stack becomes the current     *)
(* node and leaves the stack (no current node when the stack was empty),   *)
(* and the tree is unchanged; when the names differ, in the namespace      *)
(* alone as well, the call returns an error and the stack, the current     *)
(* node and every node are unchanged.                                      *)
C25_CloseTagPopsOnFullNameMatch ==
    [][(Fed /\ IsEnd(NewEntry) /\ last # NIL) =>
          IF NewEntry.tok.Name = GetXMLName(nodes, last)
          THEN /\ NewEntry.err = nilErr /\ nodes' = nodes
               /\ IF stack = <<>> THEN stack' = <<>> /\ last' = NIL
                  ELSE /\ last' = stack[Len(stack)]
                       /\ stack' = SubSeq(stack, 1, Len(stack) - 1)
          ELSE /\ NewEntry.err # nilErr
               /\ nodes' = nodes /\ stack' = stack /\ last' = last]_vars

(* A close tag with the right local name in another namespace was refused, *)
(* then the element was closed with a non-empty stack, then the root with  *)
(* an empty one.                                                           *)
C25_Reached ==
    /\ last = NIL /\ stack = <<>> /\ Closed(first)
    /\ \E j, k \in 1..Len(log) :
          /\ j < k
          /\ IsEnd(log[j]) /\ log[j].err # nilErr /\ log[j].cur # first
          /\ log[j].tok.Name.Space = xlink
          /\ log[j].tok.Name.Local = GetXMLName(nodes, log[j].cur).Local
          /\ IsEnd(log[k]) /\ log[k].err = nilErr /\ log[k].cur = log[j].cur

-----------------------------------------------------------------------------
(* No open tag has been handed to the Parser yet. *)
Fresh == \A k \in 1..Len(log) : ~IsStart(log[k])

(* Every attribute of the tag that node n accepts, and that no later       *)
(* attribute of the same name overrides, is recorded in tree h.            *)
AttrsRecorded(h, n, attrs) ==
    \A i \in 1..Len(attrs) :
        LET r == attrCallback(h, n, attrs[i])
        IN  (/\ r.err = nilErr
             /\ \A j \in (i + 1)..Len(attrs) : attrs[j].Name # attrs[i].Name)
            => r.heap = h

(* C26. The first open tag handed to a fresh Parser makes the root the     *)
(* current node with an empty stack, sets the root's name to the tag's and *)
(* forwards the tag's attributes to the root; the root's tagCallback is    *)
(* not consulted (no node is created, no "unexpected tag"); a text run     *)
(* handed over before that tag returns no error and changes nothing.       *)
C26_FirstOpenTagSelectsTheRoot ==
    [][(Fed /\ Fresh) =>
          /\ IsStart(NewEntry) =>
                /\ last' = first /\ stack' = <<>>
                /\ Len(nodes') = Len(nodes)
                /\ GetXMLName(nodes', first) = NewEntry.tok.Name
                /\ NewEntry.err # "unexpected tag"
                /\ AttrsRecorded(nodes', first, NewEntry.tok.Attr)
          /\ IsText(NewEntry) =>
                /\ NewEntry.err = nilErr
                /\ nodes' = nodes /\ stack' = stack /\ last' = last]_vars

-----------------------------------------------------------------------------
(* C27. A text run handed to ParseToken while a node is current goes to    *)
(* that node's charDataCallback: the call returns what the callback        *)
(* returns and the tree is the one the callback leaves.  With no current   *)
(* node, before the root's open tag or after the root's close tag, the     *)
(* call returns no error and changes no node.  Either way the stack and    *)
(* the current node stay.                                                  *)
C27_TextGoesToTheCurrentNode ==
    [][(Fed /\ IsText(NewEntry)) =>
          /\ stack' = stack /\ last' = last
          /\ IF last # NIL
             THEN LET r == charDataCallback(nodes, last, NewEntry.tok, NewEntry.at)
                  IN  nodes' = r.heap /\ NewEntry.err = r.err
             ELSE nodes' = nodes /\ NewEntry.err = nilErr]_vars

(* A text run before the root's open tag, one inside the root that the     *)
(* root recorded, and one after the root's close tag.                      *)
C27_Reached ==
    /\ last = NIL /\ Closed(first) /\ Len(nodes[first].Content) = 1
    /\ \E i, j, k \in 1..Len(log) :
          /\ i < j /\ j < k
          /\ IsText(log[i]) /\ log[i].cur = NIL /\ \A m \in 1..i : ~IsStart(log[m])
          /\ IsText(log[j]) /\ log[j].cur = first /\ log[j].changed
          /\ IsText(log[k]) /\ log[k].cur = NIL /\ k = Len(log)
          /\ log[k].err = nilErr /\ ~log[k].changed

-----------------------------------------------------------------------------
(* The types the text of which is kept, and the types that take none. *)
TextKinds == {"P", "StyleType", "NamedStyleType", "TD", "Link", "StyleLinkType"}
NoTextKinds ==
    {"Section", "Title", "Cite", "Poem", "Epigraph", "Annotation", "Stanza", "Table",
     "TR", "Body", "FictionBook"}

(* C28. A text run handed over while the current node is a P, StyleType,   *)
(* NamedStyleType, TD, Link or StyleLinkType returns no error and appends  *)
(* exactly one text entry holding the run's bytes at the end of that       *)
(* node's content list: no other field, no other node, neither the stack   *)
(* nor the current node changes.  While the current node is a Section,     *)
(* Title, Cite, Poem, Epigraph, Annotation, Stanza, Table, TR, Body or     *)
(* FictionBook it returns no error and changes nothing.                    *)
C28_TextByKind ==
    [][(Fed /\ IsText(NewEntry) /\ last # NIL) =>
          /\ nodes[last].kind \in TextKinds =>
                /\ NewEntry.err = nilErr /\ stack' = stack /\ last' = last
                /\ Len(nodes'[last].Content) = Len(nodes[last].Content) + 1
                /\ LET c == nodes'[last].Content
                   IN  /\ c[Len(c)].ref = NIL
                       /\ GetText(c[Len(c)]) = NewEntry.tok.Data
                       /\ nodes' = [nodes EXCEPT ![last].Content = Append(@, c[Len(c)])]
          /\ nodes[last].kind \in NoTextKinds =>
                /\ NewEntry.err = nilErr
                /\ nodes' = nodes /\ stack' = stack /\ last' = last]_vars

(* A text run reached a Section and changed nothing, a later one reached a *)
(* P inside it and is the only entry of the P's content list.              *)
C28_Reached ==
    \E j, k \in 1..Len(log) :
        /\ j < k
        /\ IsText(log[j]) /\ log[j].cur # NIL /\ nodes[log[j].cur].kind = "Section"
        /\ log[j].err = nilErr /\ ~log[j].changed
        /\ IsText(log[k]) /\ log[k].cur # NIL /\ nodes[log[k].cur].kind = "P"
        /\ log[k].err = nilErr /\ log[k].changed
        /\ nodes[log[k].cur].Content = <<Chars(log[k].tok.Data, k)>>

-----------------------------------------------------------------------------
(* C29. Parse ends when the source reports io.EOF or a read error at some  *)
(* read: the call returns (or dies of the nil dereference in ParseToken).  *)
(* The read that fails is the last: once Parse has returned no token is    *)
(* read or dispatched and nothing changes.  io.EOF adds no error, so Parse *)
(* returns nil; another read error is recorded and Parse returns an error. *)
C29_ParseEnds ==
    /\ <>(pc = "done" \/ panicked)
    /\ [][pc = "done" => UNCHANGED vars]_vars
    /\ [][(pc = "loop" /\ pc' = "done") =>
             /\ log' = log /\ nodes' = nodes /\ stack' = stack /\ last' = last
             /\ \/ parseErr' = parseErr /\ ret' = nilErr
                \/ parseErr' = Append(parseErr, "read error") /\ ret' # nilErr]_vars

(* The third read failed with an error other than io.EOF. *)
C29_Reached ==
    /\ pc = "done" /\ Len(log) = 3
    /\ parseErr = <<"read error">> /\ ret # nilErr /\ ~panicked

-----------------------------------------------------------------------------
(* The scalar children of a DocumentInfo and of an Author, the field of    *)
(* the parent each is for, and the types of the sinks.                     *)
ScalarTags(kind) ==
    CASE kind = "DocumentInfo" -> {"id", "src-url", "version"}
      [] kind = "Author" -> {"home-page", "email", "id"}
      [] OTHER -> {}
SinkField(local) ==
    CASE local = "id" -> "ID"
      [] local = "src-url" -> "SrcURLs"
      [] local = "version" -> "Version"
      [] local = "home-page" -> "HomePages"
      [] local = "email" -> "Emails"
SinkKinds == {"stringNode", "floatNode", "stringArrayNode"}

(* The value a text run leaves in the field: the string itself in a string *)
(* field, the number it denotes in Version, one more string in a list.     *)
Written(old, local, data) ==
    CASE local = "id" -> data
      [] local = "version" -> ParseFloat(data).v
      [] OTHER -> Append(old, data)

(* C30. When a DocumentInfo or an Author is current and a scalar child of  *)
(* it is opened, a new sink node becomes the current node, the parent is   *)
(* pushed on the stack and no existing node changes.  A text run handed    *)
(* over while a sink is current is written to the field of the parent the  *)
(* element stands for and changes nothing else.  The element's close tag   *)
(* makes the parent the current node again and takes it off the stack.     *)
(* No GetContent() list ever holds a sink.                                 *)
C30_ScalarsGoThroughSinks ==
    /\ [][(Fed /\ last # NIL) =>
             /\ (IsStart(NewEntry)
                 /\ NewEntry.tok.Name.Local \in ScalarTags(nodes[last].kind)) =>
                   /\ NewEntry.err = nilErr
                   /\ last' = Len(nodes) + 1 /\ Len(nodes') = Len(nodes) + 1
                   /\ nodes'[last'].kind \in SinkKinds
                   /\ stack' = Append(stack, last)
                   /\ SubSeq(nodes', 1, Len(nodes)) = nodes
             /\ (IsText(NewEntry) /\ nodes[last].kind \in SinkKinds) =>
                   LET parent == stack[Len(stack)]
                       local == GetXMLName(nodes, last).Local
                       F == SinkField(local)
                   IN  /\ stack' = stack /\ last' = last
                       /\ nodes' = [nodes EXCEPT ![parent][F] =
                                       Written(@, local, NewEntry.tok.Data)]
             /\ (IsEnd(NewEntry) /\ nodes[last].kind \in SinkKinds
                 /\ NewEntry.tok.Name = GetXMLName(nodes, last)) =>
                   /\ NewEntry.err = nilErr /\ nodes' = nodes
                   /\ last' = stack[Len(stack)]
                   /\ stack' = SubSeq(stack, 1, Len(stack) - 1)]_vars
    /\ [](\A n \in DOMAIN nodes :
             \A i \in 1..Len(GetContent(nodes, n)) :
                 LET entry == GetContent(nodes, n)[i]
                 IN  entry.ref # NIL => nodes[entry.ref].kind \notin SinkKinds)

(* An author's email went through a sink into Author.Emails, and both the  *)
(* email and the author element are closed: the DocumentInfo is current.   *)
C30_Reached ==
    /\ input = "sinks" /\ last = first /\ stack = <<>> /\ Len(log) = 6
    /\ Len(nodes) = 3
    /\ nodes[2].kind = "Author" /\ nodes[2].Emails = <<"x">>
    /\ nodes[3].kind = "stringArrayNode" /\ GetXMLName(nodes, 3) = Name("email")
    /\ nodes[first].Authors = <<2>>

-----------------------------------------------------------------------------
(* C31. An image open tag handed over while a Section is current creates   *)
(* an Image: in the Image slot, the content list staying empty, when the   *)
(* section's content list is empty; at the end of the content list, the    *)
(* Image slot staying as it is, when the list has an entry.  Handed over   *)
(* while a P, StyleType, NamedStyleType, TD, Link or StyleLinkType is      *)
(* current it appends an InlineImage to that node's content list.          *)
C31_ImageByContext ==
    [][(Fed /\ IsStart(NewEntry) /\ last # NIL
        /\ NewEntry.tok.Name.Local = "image") =>
          LET new == Len(nodes) + 1
          IN  /\ nodes[last].kind = "Section" =>
                    /\ NewEntry.err = nilErr /\ NewEntry.node = new
                    /\ nodes'[new].kind = "Image"
                    /\ IF nodes[last].Content = <<>>
                       THEN /\ nodes'[last].Image = new
                            /\ nodes'[last].Content = <<>>
                       ELSE /\ nodes'[last].Content = Append(nodes[last].Content, Ptr(new))
                            /\ nodes'[last].Image = nodes[last].Image
              /\ nodes[last].kind \in TextKinds =>
                    /\ NewEntry.err = nilErr /\ NewEntry.node = new
                    /\ nodes'[new].kind = "InlineImage"
                    /\ nodes'[last].Content = Append(nodes[last].Content, Ptr(new))]_vars

(* A section with a leading image in its slot, then a paragraph, then an   *)
(* image that went to the content list.                                    *)
C31_Reached ==
    /\ input = "leaf" /\ Len(nodes) = 4 /\ last = 4
    /\ nodes[2].kind = "Image" /\ nodes[3].kind = "P" /\ nodes[4].kind = "Image"
    /\ nodes[first].Image = 2
    /\ nodes[first].Content = <<Ptr(3), Ptr(4)>>

-----------------------------------------------------------------------------
(* The v open tags that occur directly inside the element of node n, as    *)
(* positions of the log, in document order.                                *)
LineTags(n) ==
    SelectSeq(ChildTags(n, Len(log)), LAMBDA k : log[k].tok.Name.Local = "v")

(* C32. GetContent() of a Stanza is the list of its lines: one entry per v *)
(* open tag inside the stanza, in document order, each the P created for   *)
(* that tag, whether or not the stanza has a title or a subtitle and       *)
(* wherever they stand among the lines.                                    *)
C32_StanzaContentIsItsLines ==
    \A n \in 1..Len(nodes) :
        nodes[n].kind = "Stanza" =>
            LET tags == LineTags(n)
                c == GetContent(nodes, n)
            IN  /\ Len(c) = Len(tags)
                /\ \A i \in 1..Len(tags) :
                      /\ c[i].ref # NIL /\ c[i].ref = log[tags[i]].node
                      /\ nodes[c[i].ref].kind = "P"

(* A line, a title, a subtitle and a second line: both slots are filled    *)
(* and the content is the two lines.                                       *)
C32_Reached ==
    /\ input = "stanza" /\ Len(log) = 8 /\ Len(nodes) = 5
    /\ nodes[first].Title = 3 /\ nodes[first].Subtitle = 4
    /\ GetContent(nodes, first) = <<Ptr(2), Ptr(5)>>

-----------------------------------------------------------------------------
(* C33. On a well-nested token sequence: when the close tag of an element  *)
(* whose open tag was accepted is handed over, the current node is that    *)
(* element's node and the call returns no error; the open tag and the      *)
(* close tag of an element whose open tag was rejected change neither the  *)
(* stack nor the current node, whatever the element's name.                *)
C33_StackFollowsTheDocument ==
    wellNested =>
        \A k \in 1..Len(log) :
            (IsEnd(log[k]) /\ log[k].closes # 0) =>
                LET open == log[log[k].closes]
                IN  IF open.node # NIL
                    THEN log[k].cur = open.node /\ log[k].err = nilErr
                    ELSE ~open.changed /\ ~log[k].changed

-----------------------------------------------------------------------------
(* The nodes selected by an open tag and not closed since, outermost       *)
(* first, after the first k calls: an open tag that selected a node adds   *)
(* it, a close tag that returned no error takes the innermost away.        *)
RECURSIVE Chain(_)
Chain(k) ==
    IF k = 0 THEN <<>>
    ELSE LET c == Chain(k - 1)
         IN  IF IsStart(log[k]) /\ log[k].node # NIL THEN Append(c, log[k].node)
             ELSE IF IsEnd(log[k]) /\ log[k].err = nilErr THEN SubSeq(c, 1, Len(c) - 1)
             ELSE c

Opens == Cardinality({k \in 1..Len(log) : IsStart(log[k]) /\ log[k].node # NIL})
Closes == Cardinality({k \in 1..Len(log) : IsEnd(log[k]) /\ log[k].err = nilErr})

(* C34. After every ParseToken call: a non-empty stack comes with a        *)
(* current node; the stack followed by the current node is the chain of    *)
(* the nodes selected by an open tag and not closed since, from the root   *)
(* inwards, each but the root returned by the tagCallback of the one       *)
(* before it; while a node is current the stack holds opens minus closes   *)
(* minus one nodes; and an open tag that selected a node, followed at once *)
(* by its close tag, leaves the chain as it was before the open tag.       *)
C34_StackShape ==
    LET chain == Chain(Len(log))
    IN  /\ stack # <<>> => last # NIL
        /\ chain = (IF last = NIL THEN stack ELSE Append(stack, last))
        /\ last = NIL => stack = <<>>
        /\ chain # <<>> => chain[1] = first
        /\ \A i \in 2..Len(chain) :
              \E k \in 1..Len(log) :
                  IsStart(log[k]) /\ log[k].node = chain[i] /\ log[k].cur = chain[i - 1]
        /\ last # NIL => Len(stack) = Opens - Closes - 1
        /\ \A k \in 1..(Len(log) - 1) :
              (/\ IsStart(log[k]) /\ log[k].node # NIL
               /\ IsEnd(log[k + 1]) /\ log[k + 1].tok.Name = log[k].tok.Name)
              => log[k + 1].err = nilErr /\ Chain(k + 1) = Chain(k - 1)

(* Two sections deep, a paragraph opened and closed, a title open.         *)
C34_Reached ==
    /\ input = "section" /\ Len(log) = 5
    /\ stack = <<1, 2>> /\ last = 4
    /\ nodes[3].kind = "P" /\ IsEnd(log[4]) /\ log[4].err = nilErr
    /\ nodes[4].kind = "Title"

-----------------------------------------------------------------------------
(* C35. Every ParseToken call returns, with nil or with an error value:    *)
(* none dies of a nil dereference, a close tag handed over while no node   *)
(* is current included.                                                    *)
C35_ParseTokenAlwaysReturns ==
    /\ ~panicked
    /\ \A k \in 1..Len(log) : log[k].err # "panic"

-----------------------------------------------------------------------------
(* C36. Parse(d, start) reads and dispatches nothing after the close tag   *)
(* that matches start: that close tag is the last token of the call, and   *)
(* the root's subtree holds the nodes of that one element only.            *)
C36_ParseStopsAtTheMatchingClose ==
    \A k \in 1..Len(log) :
        (IsEnd(log[k]) /\ log[k].closes = 1) =>
            /\ k = Len(log)
            /\ \A j \in (k + 1)..Len(log) : ~log[j].changed

-----------------------------------------------------------------------------
(* C37. A node held in a slot, a list or the content list of a node stays  *)
(* there: no ParseToken call takes it out or puts another in its place, a  *)
(* second title, annotation or leading image included.                     *)
C37_TheTreeOnlyGrows ==
    [][\A n \in DOMAIN nodes :
          \A c \in Children(nodes, n) : c \in Children(nodes', n)]_vars

-----------------------------------------------------------------------------
(* The element opened by token c has text: a run was handed to its node. *)
HasText(c, k) == \E j \in (c + 1)..k : IsText(log[j]) /\ log[j].cur = log[c].node

(* C38. Right after the close tag of a scalar element that has text, in    *)
(* one run or in several: a string field (id) holds the element's full     *)
(* text, all its runs together; a string list (src-url, home-page, email)  *)
(* has gained one entry, the full text of the element.                     *)
C38_ScalarsIgnoreRunBoundaries ==
    LET k == Len(log)
        c == log[k].closes
    IN  /\ (JustClosed("stringNode") /\ HasText(c, k)) =>
              nodes[log[c].cur][SinkField(log[c].tok.Name.Local)] = TextContent(c, k)
        /\ (JustClosed("stringArrayNode") /\ HasText(c, k)) =>
              LET list == nodes[log[c].cur][SinkField(log[c].tok.Name.Local)]
                  elems == SelectSeq(ChildTags(log[c].cur, k),
                                     LAMBDA j : log[j].tok.Name = log[c].tok.Name
                                                /\ HasText(j, k))
              IN  /\ Len(list) = Len(elems)
                  /\ list # <<>> /\ list[Len(list)] = TextContent(c, k)

-----------------------------------------------------------------------------
(* The field of an Image an attribute of the image tag is declared for. *)
ImageField(local) ==
    CASE local = "href" -> "XlinkHref"
      [] local = "type" -> "XlinkType"
      [] local = "alt" -> "Alt"
      [] local = "title" -> "Title"
      [] local = "id" -> "ID"

(* C39. Right after an image open tag that created an Image, the call has  *)
(* returned no error and the tag's href, type, alt, title and id are in    *)
(* the Image's XlinkHref, XlinkType, Alt, Title and ID; right after one    *)
(* that created an InlineImage the same holds for href, type and alt.      *)
C39_ImageAttributesAreRecorded ==
    (log # <<>> /\ IsStart(log[Len(log)]) /\ log[Len(log)].node # NIL) =>
        LET e == log[Len(log)]
            n == e.node
            declared == IF nodes[n].kind = "Image"
                        THEN {"href", "type", "alt", "title", "id"}
                        ELSE {"href", "type", "alt"}
        IN  nodes[n].kind \in {"Image", "InlineImage"} =>
               /\ (\A i \in 1..Len(e.tok.Attr) : e.tok.Attr[i].Name.Local \in declared)
                     => e.err = nilErr
               /\ \A i \in 1..Len(e.tok.Attr) :
                     e.tok.Attr[i].Name.Local \in declared
                        => nodes[n][ImageField(e.tok.Attr[i].Name.Local)]
                              = e.tok.Attr[i].Value

-----------------------------------------------------------------------------
(* C40. What a node keeps of a text run is a copy: when the token source   *)
(* reads on and overwrites its buffer, between two ParseToken calls, no    *)
(* value stored in the tree changes.                                       *)
C40_StoredTextIsACopy ==
    [][log' = log => nodes' = nodes]_vars

====
